---- MODULE Spec2Model ----
(***************************************************************************)
(* Model of the credential document pipeline of documents/                 *)
(* document_processor.py: canonical payload, content hash, identifier,     *)
(* creation of a Document with its typed sub-record and evidence files,    *)
(* and batch processing, against the Django storage described by           *)
(* documents/models.py; of the review and upload routes of                 *)
(* documents/views.py; and of the extraction engine of                     *)
(* documents/extractors.py.                                                *)
(*                                                                         *)
(* Python values.  A str is [py |-> "str", s |-> pieces] where pieces is a *)
(* sequence of text pieces, each a run of ordinary characters or a single  *)
(* character that JSON escapes (a double quote or a backslash); None is    *)
(* [py |-> "None"].  A dict is the sequence of its <<key, value>> items in *)
(* insertion order, keys distinct.                                         *)
(***************************************************************************)
EXTENDS Integers, Sequences, FiniteSets, TLC

VARIABLES
    documents,       \* rows of Document
    subrecords,      \* rows of Certificate, JobHistory, Skill, Milestone, CommunityContribution
    evidence_files,  \* rows of EvidenceFile
    next_id,         \* number of primary keys handed out so far
    now,             \* the latest instant datetime.now() returned, in microseconds
    submitted,       \* number of submissions handled so far
    last,            \* the last call of the service: its arguments and what it returned
    hash_type,       \* content hashing: the document type of the two inputs
    hash_a,          \* content hashing: first input mapping
    hash_b,          \* content hashing: second input mapping
    hash_out,        \* content hashing: what the pipeline computes for hash_a and hash_b
    edits,           \* content hashing: number of edits applied to hash_b
    extraction,      \* the last call of the extraction engine: its arguments and result
    inflight         \* concurrent submissions: each request's position and locals

vars == <<documents, subrecords, evidence_files, next_id, now, submitted, last,
          hash_type, hash_a, hash_b, hash_out, edits, extraction, inflight>>

store_vars == <<documents, subrecords, evidence_files, next_id, now, submitted, last>>

hash_vars == <<hash_type, hash_a, hash_b, hash_out, edits>>

extract_vars == <<extraction>>

conc_vars == <<inflight>>

----------------------------------------------------------------------------
(* Bounds of the model *)

MaxEdits == 2

\* calls of process_document in one run
MaxCalls == 2

\* evidence files in one submission
MaxFiles == 2

\* items handed to process_batch in one run
MaxBatch == 3

----------------------------------------------------------------------------
(* Python values and dicts *)

None == [py |-> "None"]

Str(pieces) == [py |-> "str", s |-> pieces]

S(text) == Str(<<text>>)

Keys(d) == {d[i][1] : i \in DOMAIN d}

\* d[k], defined when k is a key of d
Item(d, k) == d[CHOOSE i \in DOMAIN d : d[i][1] = k][2]

\* d.get(k)
Get(d, k) == IF k \in Keys(d) THEN Item(d, k) ELSE None

\* Python's truth value of a str or None
Truthy(v) == v # None /\ v.s # <<>>

----------------------------------------------------------------------------
(* json.dumps(data, sort_keys=True) and hashlib.sha256(...).hexdigest() *)

\* The keys that occur in the model, in the order Python's str comparison
\* gives them (the order sort_keys=True emits them in).
KeyOrder ==
    << "certificate_title", "completion_date", "contribution_type",
       "credential_type", "date", "employer_name", "employment_type",
       "end_date", "full_name", "issuer_name", "job_category", "job_title",
       "milestone_summary", "milestone_type", "notes", "platform_name",
       "proficiency_level", "program_category", "skill_category",
       "skill_name", "start_date" >>

RECURSIVE Concat(_)
Concat(texts) ==
    IF texts = <<>> THEN "" ELSE Head(texts) \o Concat(Tail(texts))

\* json's string escaping of one piece of text
EscapePiece(p) ==
    IF p = "\"" THEN "\\\""
    ELSE IF p = "\\" THEN "\\\\"
    ELSE p

JsonString(pieces) ==
    "\"" \o Concat([i \in DOMAIN pieces |-> EscapePiece(pieces[i])]) \o "\""

JsonValue(v) == IF v = None THEN "null" ELSE JsonString(v.s)

\* the keys of d in the order json.dumps emits them
EmitOrder(d, sort_keys) ==
    IF sort_keys
    THEN SelectSeq(KeyOrder, LAMBDA k : k \in Keys(d))
    ELSE [i \in DOMAIN d |-> d[i][1]]

json_dumps(d, sort_keys) ==
    LET ks == EmitOrder(d, sort_keys)
        member(i) == (IF i = 1 THEN "" ELSE ", ")
                     \o JsonString(<<ks[i]>>) \o ": " \o JsonValue(Item(d, ks[i]))
    IN  "{" \o Concat([i \in DOMAIN ks |-> member(i)]) \o "}"

\* SHA-256 as an ideal digest: the digest of a text stands for that text
\* and for no other.
sha256_hexdigest(text) == [sha256 |-> text]

\* as generate_hash, without sort_keys
generate_hash_InsertionOrder(data) == sha256_hexdigest(json_dumps(data, FALSE))

generate_hash(data) == sha256_hexdigest(json_dumps(data, TRUE))

----------------------------------------------------------------------------
(* The allow-listed fields of each document type: <<key, required>> in the *)
(* order the handler reads them.                                           *)

CertificateFields ==
    << <<"certificate_title", TRUE>>, <<"issuer_name", TRUE>>,
       <<"completion_date", TRUE>>, <<"credential_type", TRUE>>,
       <<"program_category", TRUE>> >>

JobHistoryFields ==
    << <<"job_title", TRUE>>, <<"employer_name", TRUE>>,
       <<"employment_type", TRUE>>, <<"start_date", TRUE>>,
       <<"end_date", FALSE>>, <<"job_category", TRUE>> >>

SkillFields ==
    << <<"skill_name", TRUE>>, <<"skill_category", TRUE>>,
       <<"proficiency_level", FALSE>> >>

MilestoneFields ==
    << <<"milestone_type", TRUE>>, <<"issuer_name", TRUE>>,
       <<"date", TRUE>>, <<"milestone_summary", TRUE>> >>

CommunityFields ==
    << <<"contribution_type", TRUE>>, <<"platform_name", TRUE>>,
       <<"date", TRUE>> >>

KnownTypes == {"certificate", "job_history", "skill", "milestone", "community"}

Fields(proof_type) ==
    CASE proof_type = "certificate" -> CertificateFields
      [] proof_type = "job_history" -> JobHistoryFields
      [] proof_type = "skill"       -> SkillFields
      [] proof_type = "milestone"   -> MilestoneFields
      [] proof_type = "community"   -> CommunityFields

AllowList(proof_type) ==
    {Fields(proof_type)[i][1] : i \in DOMAIN Fields(proof_type)}

RequiredKeys(proof_type) ==
    {Fields(proof_type)[i][1] :
        i \in {j \in DOMAIN Fields(proof_type) : Fields(proof_type)[j][2]}}

\* str(KeyError(k))
KeyErrorText(k) == "'" \o k \o "'"

\* as onchain_data, the whole of data taken over
onchain_data_ReadsEveryKey(proof_type, data) ==
    [raised |-> FALSE, exc |-> "", value |-> data]

\* as onchain_data, every key read with data.get
onchain_data_GetForAll(proof_type, data) ==
    LET fs == Fields(proof_type)
    IN  [raised |-> FALSE, exc |-> "",
         value |-> [i \in DOMAIN fs |-> <<fs[i][1], Get(data, fs[i][1])>>]]

\* as onchain_data, an optional key copied only when the caller gave it
onchain_data_SkipsOmitted(proof_type, data) ==
    LET fs == Fields(proof_type)
        missing == {i \in DOMAIN fs : fs[i][2] /\ fs[i][1] \notin Keys(data)}
        given == SelectSeq(fs, LAMBDA f : f[1] \in Keys(data))
    IN  IF missing # {}
        THEN [raised |-> TRUE,
              exc    |-> KeyErrorText(fs[CHOOSE i \in missing :
                                            \A j \in missing : i <= j][1]),
              value  |-> <<>>]
        ELSE [raised |-> FALSE,
              exc    |-> "",
              value  |-> [i \in DOMAIN given |-> <<given[i][1], Item(data, given[i][1])>>]]

\* The dict display that builds onchain_data: the values are read in the
\* order written, data[k] for a required key and data.get(k) for an optional
\* one; the first required key that is missing raises KeyError.
onchain_data(proof_type, data) ==
    LET fs == Fields(proof_type)
        missing == {i \in DOMAIN fs : fs[i][2] /\ fs[i][1] \notin Keys(data)}
    IN  IF missing # {}
        THEN [raised |-> TRUE,
              exc    |-> KeyErrorText(fs[CHOOSE i \in missing :
                                            \A j \in missing : i <= j][1]),
              value  |-> <<>>]
        ELSE [raised |-> FALSE,
              exc    |-> "",
              value  |-> [i \in DOMAIN fs |-> <<fs[i][1], Get(data, fs[i][1])>>]]

\* What the pipeline computes as validation_hash for data, or the KeyError
content_hash(proof_type, data) ==
    LET oc == onchain_data(proof_type, data)
    IN  IF oc.raised
        THEN [raised |-> TRUE, exc |-> oc.exc]
        ELSE [raised |-> FALSE, hash |-> generate_hash(oc.value),
              direct |-> generate_hash(data)]

----------------------------------------------------------------------------
(* Content hashing of two inputs of one type: hash_a is a complete input,  *)
(* hash_b is obtained from it by edits of the mapping.                     *)

\* a plain text, a text with a character JSON escapes, the text "null", None
Values == {S("x"), Str(<<"y", "\"">>), S("null"), None}

ExtraKeys == {"full_name", "notes"}

BaseData(proof_type) ==
    [i \in DOMAIN Fields(proof_type) |-> <<Fields(proof_type)[i][1], S("x")>>]

HashOut(t, a, b) == [a |-> content_hash(t, a), b |-> content_hash(t, b)]

HashInit ==
    /\ hash_type = "certificate"
    /\ hash_a = BaseData(hash_type)
    /\ hash_b = hash_a
    /\ hash_out = HashOut(hash_type, hash_a, hash_b)
    /\ edits = 0

StoreInit ==
    /\ documents = {}
    /\ subrecords = {}
    /\ evidence_files = {}
    /\ next_id = 0
    /\ now = 0
    /\ submitted = 0
    /\ last = [op |-> "none"]

\* no call of the extraction engine yet, no request in flight
ExtractInit == extraction = [op |-> "none"]

ConcInit == inflight = <<>>

Init == StoreInit /\ HashInit /\ ExtractInit /\ ConcInit

EditTo(b) ==
    /\ edits < MaxEdits
    /\ edits' = edits + 1
    /\ hash_b' = b
    /\ hash_out' = HashOut(hash_type, hash_a, b)
    /\ UNCHANGED <<hash_type, hash_a>>
    /\ UNCHANGED store_vars
    /\ UNCHANGED <<extract_vars, conc_vars>>

\* the two inputs are of another document type
NewInput ==
    \E t \in KnownTypes \ {hash_type} :
        /\ edits = 0
        /\ hash_type' = t
        /\ hash_a' = BaseData(t)
        /\ hash_b' = BaseData(t)
        /\ hash_out' = HashOut(t, BaseData(t), BaseData(t))
        /\ UNCHANGED edits
        /\ UNCHANGED store_vars
        /\ UNCHANGED <<extract_vars, conc_vars>>

\* the same items inserted in another order: items i and i+1 change places
MoveKey ==
    \E i \in 1..(Len(hash_b) - 1) :
        EditTo([hash_b EXCEPT ![i] = hash_b[i + 1], ![i + 1] = hash_b[i]])

\* the value of a key that is present changes
SetValue ==
    \E i \in DOMAIN hash_b : \E v \in Values \ {hash_b[i][2]} :
        EditTo([hash_b EXCEPT ![i] = <<hash_b[i][1], v>>])

\* a key that is absent is added
AddKey ==
    \E k \in (AllowList(hash_type) \cup ExtraKeys) \ Keys(hash_b) :
        \E v \in Values : EditTo(Append(hash_b, <<k, v>>))

\* a key is removed
DelKey ==
    \E i \in DOMAIN hash_b :
        EditTo(SelectSeq(hash_b, LAMBDA it : it[1] # hash_b[i][1]))

HashNext == NewInput \/ MoveKey \/ SetValue \/ AddKey \/ DelKey

HashSpec == Init /\ [][HashNext]_vars

----------------------------------------------------------------------------
(* Claims on the content hash *)

SamePairs(a, b) == {a[i] : i \in DOMAIN a} = {b[i] : i \in DOMAIN b}

BothHashed == ~hash_out.a.raised /\ ~hash_out.b.raised

\* C9: two input mappings of one document type with the same (key, value)
\* pairs in a different insertion order get the same content hash, from the
\* pipeline (generate_hash over the canonical payload) and from generate_hash
\* applied to the mappings themselves.
C9_HashIgnoresInsertionOrder ==
    (SamePairs(hash_a, hash_b) /\ BothHashed)
        => /\ hash_out.a.hash = hash_out.b.hash
           /\ hash_out.a.direct = hash_out.b.direct

C9_Witness ==
    /\ SamePairs(hash_a, hash_b)
    /\ hash_a # hash_b
    /\ BothHashed
    /\ hash_out.a.hash = hash_out.b.hash

SameAllowListed(t, a, b) == \A k \in AllowList(t) : Get(a, k) = Get(b, k)

\* C10: for two inputs of one document type the content hashes are equal if
\* and only if every allow-listed field has the same value in both (the value
\* of an omitted optional field being None, as data.get gives it); keys
\* outside the allow-list have no influence.
C10_HashIffAllowListedEqual ==
    BothHashed
        => ((hash_out.a.hash = hash_out.b.hash)
                <=> SameAllowListed(hash_type, hash_a, hash_b))

C10_WitnessChanged ==
    /\ BothHashed
    /\ Keys(hash_b) \ AllowList(hash_type) # {}
    /\ ~SameAllowListed(hash_type, hash_a, hash_b)
    /\ hash_out.a.hash # hash_out.b.hash

----------------------------------------------------------------------------
(* Storage: the Django models.  db is the record of the tables and of the  *)
(* number of primary keys handed out:                                      *)
(*   [documents, subrecords, evidence_files, next_id].                     *)

\* the sub-record model of each proof_type
SubModel(proof_type) ==
    CASE proof_type = "certificate" -> "Certificate"
      [] proof_type = "job_history" -> "JobHistory"
      [] proof_type = "skill"       -> "Skill"
      [] proof_type = "milestone"   -> "Milestone"
      [] proof_type = "community"   -> "CommunityContribution"

\* columns declared null=True: JobHistory.end_date, Skill.proficiency_level
NullableColumns == {"end_date", "proficiency_level"}

\* timestamp.strftime("%Y%m%d%H%M%S%f") joined to the type: one identifier
\* per type and microsecond
generate_internal_id(proof_type, timestamp) == <<proof_type, timestamp>>

\* as Document_create, internal_id without unique=True
Document_create_NotUnique(db, proof_type, internal_id, validation_hash, onchain, user_id, fault) ==
    IF fault = "document"
    THEN [raised |-> TRUE, exc |-> "OperationalError: documents_document", db |-> db]
    ELSE LET row == [id              |-> db.next_id,
                     proof_type      |-> proof_type,
                     internal_id     |-> internal_id,
                     validation_hash |-> validation_hash,
                     onchain_data    |-> onchain,
                     user_id         |-> user_id,
                     status          |-> "pending"]
         IN  [raised |-> FALSE, exc |-> "", row |-> row,
              db |-> [db EXCEPT !.documents = @ \cup {row},
                                !.next_id = @ + 1]]

\* Document.objects.create(...): internal_id is unique=True, so a second row
\* with the same internal_id is refused (IntegrityError); raises are the
\* storage collaborator's (fault = "document").
Document_create(db, proof_type, internal_id, validation_hash, onchain, user_id, fault) ==
    IF fault = "document"
    THEN [raised |-> TRUE, exc |-> "OperationalError: documents_document", db |-> db]
    ELSE IF \E d \in db.documents : d.internal_id = internal_id
    THEN [raised |-> TRUE,
          exc |-> "UNIQUE constraint failed: documents_document.internal_id",
          db |-> db]
    ELSE LET row == [id              |-> db.next_id,
                     proof_type      |-> proof_type,
                     internal_id     |-> internal_id,
                     validation_hash |-> validation_hash,
                     onchain_data    |-> onchain,
                     user_id         |-> user_id,
                     status          |-> "pending"]
         IN  [raised |-> FALSE, exc |-> "", row |-> row,
              db |-> [db EXCEPT !.documents = @ \cup {row},
                                !.next_id = @ + 1]]

\* Certificate.objects.create(document=document, **onchain_data) and its four
\* siblings: a None in a column that is not null=True is refused
\* (IntegrityError); other raises are the storage collaborator's
\* (fault = "subrecord").
SubRecord_create(db, proof_type, document, onchain, fault) ==
    IF fault = "subrecord"
    THEN [raised |-> TRUE, exc |-> "OperationalError: " \o SubModel(proof_type),
          db |-> db]
    ELSE IF \E i \in DOMAIN onchain :
                onchain[i][2] = None /\ onchain[i][1] \notin NullableColumns
    THEN [raised |-> TRUE,
          exc |-> "NOT NULL constraint failed: " \o SubModel(proof_type),
          db |-> db]
    ELSE [raised |-> FALSE, exc |-> "",
          db |-> [db EXCEPT !.subrecords =
                      @ \cup {[model    |-> SubModel(proof_type),
                               document |-> document.id,
                               fields   |-> onchain]}]]

\* document.delete(): the sub-record and the evidence files go with it
\* (on_delete=CASCADE)
Document_delete(db, document) ==
    [db EXCEPT !.documents = {d \in @ : d.id # document.id},
               !.subrecords = {r \in @ : r.document # document.id},
               !.evidence_files = {f \in @ : f.document # document.id}]

----------------------------------------------------------------------------
(* The five handlers.  env is what the call meets outside the program:     *)
(*   env.now    the instant datetime.now() returns                         *)
(*   env.fault  where the storage collaborator raises: "none", "document", *)
(*              "subrecord"                                                *)
(*   env.bad    the positions of the evidence files whose upload raises    *)
(* A handler returns [raised, exc, stage, document, primary, db]: the      *)
(* exception it raises or the document it returns, the statement that      *)
(* raised ("onchain_data", "document", "subrecord"; "returned" when none), *)
(* the id of the primary record it created (NoPrimary when none) and the   *)
(* storage it leaves.                                                      *)

NoPrimary == -1

\* Certificate.objects.create(...) has raised or returned
after_subrecord_create(doc, sub) ==
    IF sub.raised
    THEN [raised |-> TRUE, exc |-> sub.exc, stage |-> "subrecord",
          primary |-> doc.row.id, db |-> sub.db]
    ELSE [raised |-> FALSE, exc |-> "", stage |-> "returned",
          document |-> doc.row, primary |-> doc.row.id, db |-> sub.db]

\* Document.objects.create(...) has raised or returned; then the sub-record
\* is created from the same onchain_data
after_document_create(db, proof_type, onchain, env, doc) ==
    IF doc.raised
    THEN [raised |-> TRUE, exc |-> doc.exc, stage |-> "document",
          primary |-> NoPrimary, db |-> db]
    ELSE after_subrecord_create(
             doc, SubRecord_create(doc.db, proof_type, doc.row, onchain, env.fault))

\* onchain_data has raised KeyError or is built; then hash, identifier and
\* Document.objects.create(..., status='pending')
after_onchain_data(db, proof_type, user_id, env, oc) ==
    IF oc.raised
    THEN [raised |-> TRUE, exc |-> oc.exc, stage |-> "onchain_data",
          primary |-> NoPrimary, db |-> db]
    ELSE after_document_create(
             db, proof_type, oc.value, env,
             Document_create(db, proof_type,
                             generate_internal_id(proof_type, env.now),
                             generate_hash(oc.value), oc.value, user_id, env.fault))

\* the body shared by the five handlers
process_typed(db, proof_type, data, user_id, env) ==
    after_onchain_data(db, proof_type, user_id, env, onchain_data(proof_type, data))

process_certificate(db, data, user_id, env) ==
    process_typed(db, "certificate", data, user_id, env)

process_job_history(db, data, user_id, env) ==
    process_typed(db, "job_history", data, user_id, env)

process_skill(db, data, user_id, env) ==
    process_typed(db, "skill", data, user_id, env)

process_milestone(db, data, user_id, env) ==
    process_typed(db, "milestone", data, user_id, env)

process_community_contribution(db, data, user_id, env) ==
    process_typed(db, "community", data, user_id, env)

----------------------------------------------------------------------------
(* process_document *)

\* file_obj.content_type or 'unknown'
FileType(file_obj) ==
    IF Truthy(file_obj.content_type) THEN file_obj.content_type.s[1] ELSE "unknown"

UploadError(file_obj) == "Error uploading file " \o file_obj.name \o ": storage error"

EvidenceRow(document, proof_type, file_obj, i) ==
    [id          |-> <<document.id, i>>,
     document    |-> document.id,
     file        |-> file_obj.name,
     file_type   |-> FileType(file_obj),
     description |-> "Evidence for " \o proof_type]

\* as attach_evidence, the loop ending at the first raise
RECURSIVE attach_evidence_StopsAtFailure(_, _, _, _, _, _)
attach_evidence_StopsAtFailure(st, document, proof_type, files, bad, i) ==
    IF i > Len(files) THEN st
    ELSE IF i \in bad
    THEN [st EXCEPT !.errors = Append(@, UploadError(files[i]))]
    ELSE attach_evidence_StopsAtFailure(
             [st EXCEPT !.db.evidence_files =
                  @ \cup {EvidenceRow(document, proof_type, files[i], i)}],
             document, proof_type, files, bad, i + 1)

\* The loop over evidence_files: one EvidenceFile.objects.create per file,
\* each in its own try; a raise adds one message and the loop goes on.
\* st is [db, errors]; the row's id stands for its uuid4.
RECURSIVE attach_evidence(_, _, _, _, _, _)
attach_evidence(st, document, proof_type, files, bad, i) ==
    IF i > Len(files) THEN st
    ELSE IF i \in bad
    THEN attach_evidence(
             [st EXCEPT !.errors = Append(@, UploadError(files[i]))],
             document, proof_type, files, bad, i + 1)
    ELSE attach_evidence(
             [st EXCEPT !.db.evidence_files =
                  @ \cup {EvidenceRow(document, proof_type, files[i], i)}],
             document, proof_type, files, bad, i + 1)

\* as except_clause, without errors.append(str(e))
except_clause_NoMessage(db, document, errors, exc) ==
    [document |-> None,
     errors   |-> errors,
     db       |-> IF document # None THEN Document_delete(db, document) ELSE db]

\* The except clause of process_document: document is the local variable,
\* still None when the handler raised before its result was assigned.
except_clause(db, document, errors, exc) ==
    [document |-> None,
     errors   |-> Append(errors, exc),
     db       |-> IF document # None THEN Document_delete(db, document) ELSE db]

\* the if/elif chain over the five known types
process_by_type(db, proof_type, data, user_id, env) ==
    CASE proof_type = "certificate" -> process_certificate(db, data, user_id, env)
      [] proof_type = "job_history" -> process_job_history(db, data, user_id, env)
      [] proof_type = "skill"       -> process_skill(db, data, user_id, env)
      [] proof_type = "milestone"   -> process_milestone(db, data, user_id, env)
      [] proof_type = "community"   ->
             process_community_contribution(db, data, user_id, env)

\* what follows the handler inside the try: the evidence loop when the
\* handler returned, the except clause when it raised (the assignment to
\* document has not happened then)
handler_returned(r, st) ==
    [document |-> r.document,
     errors   |-> st.errors,
     stage    |-> r.stage,
     primary  |-> r.primary,
     db       |-> st.db]

after_handler(r, proof_type, files, env) ==
    IF r.raised
    THEN [primary |-> r.primary, stage |-> r.stage]
         @@ except_clause(r.db, None, <<>>, r.exc)
    ELSE handler_returned(
             r, IF files # <<>>
                THEN attach_evidence([db |-> r.db, errors |-> <<>>],
                                     r.document, proof_type, files, env.bad, 1)
                ELSE [db |-> r.db, errors |-> <<>>])

\* as process_document, the else branch falling back to the certificate handler
process_document_UnknownAsCertificate(db, proof_type, data, user_id, files, env) ==
    LET t == IF proof_type \in KnownTypes THEN proof_type ELSE "certificate"
    IN  after_handler(process_by_type(db, t, data, user_id, env), t, files, env)

\* Returns [document, errors, stage, primary, db]: the pair the code
\* returns, how far the call got, the id of the primary record it created
\* (NoPrimary when none) and the storage it leaves.
process_document(db, proof_type, data, user_id, files, env) ==
    IF proof_type \notin KnownTypes
    THEN [document |-> None,
          errors   |-> <<"Unknown proof type: " \o proof_type>>,
          stage    |-> "unknown_type",
          primary  |-> NoPrimary,
          db       |-> db]
    ELSE after_handler(process_by_type(db, proof_type, data, user_id, env),
                       proof_type, files, env)

----------------------------------------------------------------------------
(* The calls of process_document *)

UserIds == {"user-1"}

UploadedFiles ==
    << [name |-> "scan1.pdf", content_type |-> S("application/pdf")],
       [name |-> "scan2.png", content_type |-> None],
       [name |-> "scan3.jpg", content_type |-> S("image/jpeg")],
       [name |-> "scan4.gif", content_type |-> S("image/gif")] >>

WithoutKey(d, k) == SelectSeq(d, LAMBDA it : it[1] # k)

WithValue(d, k, v) == [i \in DOMAIN d |-> IF d[i][1] = k THEN <<k, v>> ELSE d[i]]

Submission(t, d, files) == [proof_type |-> t, data |-> d, evidence_files |-> files]

\* The submissions: complete data of each type; complete data with
\* MaxFiles evidence files; data with an optional key left out and a key
\* outside the allow-list; data without a required key; data with a null
\* where the sub-record wants a value; an unknown type.
Submissions ==
    {Submission(t, BaseData(t), <<>>) : t \in KnownTypes}
    \cup {Submission("certificate", BaseData("certificate"),
                     SubSeq(UploadedFiles, 1, MaxFiles)),
          Submission("job_history",
                     Append(WithoutKey(BaseData("job_history"), "end_date"),
                            <<"notes", S("y")>>), <<>>),
          Submission("certificate",
                     WithoutKey(BaseData("certificate"), "certificate_title"),
                     SubSeq(UploadedFiles, 1, 1)),
          Submission("job_history",
                     WithoutKey(BaseData("job_history"), "job_category"), <<>>),
          Submission("certificate",
                     WithValue(BaseData("certificate"), "credential_type", None),
                     <<>>),
          Submission("diploma", BaseData("certificate"),
                     SubSeq(UploadedFiles, 1, 1))}

Faults == {"none", "document", "subrecord"}

\* whether the call gets as far as datetime.now() and the storage
ReachesStorage(sub) ==
    /\ sub.proof_type \in KnownTypes
    /\ RequiredKeys(sub.proof_type) \subseteq Keys(sub.data)

\* The surroundings of one call, as [tick, fault, bad]: the instant the
\* call reads is the latest instant read so far (tick 0) or the next one
\* (tick 1); fault and bad as above.  What the call never consults is left
\* at its neutral value.
EnvChoices(sub) ==
    IF ~ReachesStorage(sub)
    THEN {[tick |-> 0, fault |-> "none", bad |-> {}]}
    ELSE {[tick |-> tick, fault |-> fault, bad |-> {}] :
             tick \in {0, 1}, fault \in {"document", "subrecord"}}
         \cup {[tick |-> tick, fault |-> "none", bad |-> bad] :
                  tick \in {0, 1}, bad \in SUBSET (1..Len(sub.evidence_files))}

MakeEnv(c, clock) == [now |-> clock + c.tick, fault |-> c.fault, bad |-> c.bad]

Db == [documents |-> documents, subrecords |-> subrecords,
       evidence_files |-> evidence_files, next_id |-> next_id]

Tables(db) == [documents |-> db.documents, subrecords |-> db.subrecords,
               evidence_files |-> db.evidence_files]

SetDb(db) ==
    /\ documents' = db.documents
    /\ subrecords' = db.subrecords
    /\ evidence_files' = db.evidence_files
    /\ next_id' = db.next_id

\* process_document(...) has returned r
ReturnFromDocument(sub, env, r) ==
    /\ SetDb(r.db)
    /\ now' = env.now
    /\ submitted' = submitted + 1
    /\ last' = [op         |-> "process_document",
                proof_type |-> sub.proof_type,
                data       |-> sub.data,
                files      |-> sub.evidence_files,
                env        |-> env,
                before     |-> Tables(Db),
                document   |-> r.document,
                errors     |-> r.errors,
                stage      |-> r.stage,
                primary    |-> r.primary]

CallDocument(sub, user_id, env) ==
    ReturnFromDocument(sub, env,
                       process_document(Db, sub.proof_type, sub.data, user_id,
                                        sub.evidence_files, env))

\* One call of process_document
ProcessDocument ==
    /\ submitted < MaxCalls
    /\ \E sub \in Submissions, user_id \in UserIds :
         \E c \in EnvChoices(sub) : CallDocument(sub, user_id, MakeEnv(c, now))
    /\ UNCHANGED hash_vars
    /\ UNCHANGED <<extract_vars, conc_vars>>

Next == ProcessDocument

Spec == Init /\ [][Next]_vars

----------------------------------------------------------------------------
(* process_batch *)

\* as count_item, an item counting as successful only without error messages
count_item_SkipsAttachErrors(stats, document, errors) ==
    IF document # None /\ errors = <<>>
    THEN [stats EXCEPT !.successful = @ + 1]
    ELSE IF document = None
    THEN [stats EXCEPT !.failed = @ + 1]
    ELSE stats

\* stats['successful'] += 1 or stats['failed'] += 1
count_item(stats, document, errors) ==
    IF document # None
    THEN [stats EXCEPT !.successful = @ + 1]
    ELSE [stats EXCEPT !.failed = @ + 1]

\* as result_entry, a created item with error messages carrying them
result_entry_WithAttachErrors(idx, proof_type, document, errors) ==
    IF document # None /\ errors = <<>>
    THEN [index |-> idx, proof_type |-> proof_type, status |-> "success",
          document_id |-> document.id, internal_id |-> document.internal_id]
    ELSE IF document # None
    THEN [index |-> idx, proof_type |-> proof_type, status |-> "success",
          document_id |-> document.id, internal_id |-> document.internal_id,
          errors |-> errors]
    ELSE [index |-> idx, proof_type |-> proof_type, status |-> "failed",
          errors |-> errors]

\* as result_entry, the index counted from 1
result_entry_OneBased(idx, proof_type, document, errors) ==
    IF document # None
    THEN [index |-> idx + 1, proof_type |-> proof_type, status |-> "success",
          document_id |-> document.id, internal_id |-> document.internal_id]
    ELSE [index |-> idx + 1, proof_type |-> proof_type, status |-> "failed",
          errors |-> errors]

\* the entry appended to results; idx counts from 0 (enumerate)
result_entry(idx, proof_type, document, errors) ==
    IF document # None
    THEN [index |-> idx, proof_type |-> proof_type, status |-> "success",
          document_id |-> document.id, internal_id |-> document.internal_id]
    ELSE [index |-> idx, proof_type |-> proof_type, status |-> "failed",
          errors |-> errors]

\* the rest of one turn of the loop, process_document having returned r:
\* acc is [db, now, results, stats, calls]; calls keeps what each call of
\* process_document returned
batch_append(acc, idx, doc_data, env, r) ==
    [db      |-> r.db,
     now     |-> env.now,
     results |-> Append(acc.results,
                        result_entry(idx, doc_data.proof_type, r.document, r.errors)),
     stats   |-> count_item(acc.stats, r.document, r.errors),
     calls   |-> Append(acc.calls,
                        [document |-> r.document, errors |-> r.errors,
                         stage |-> r.stage, primary |-> r.primary])]

batch_call(acc, idx, doc_data, user_id, env) ==
    batch_append(acc, idx, doc_data, env,
                 process_document(acc.db, doc_data.proof_type, doc_data.data, user_id,
                                  doc_data.evidence_files, env))

\* one turn of the loop for documents_data[idx + 1]
batch_item(acc, idx, doc_data, user_id, choice) ==
    batch_call(acc, idx, doc_data, user_id, MakeEnv(choice, acc.now))

\* as batch_loop, the loop ending after the first failed item
RECURSIVE batch_loop_StopsAtFailure(_, _, _, _, _)
batch_loop_StopsAtFailure(acc, idx, documents_data, user_id, choices) ==
    IF idx >= Len(documents_data) \/ (idx > 0 /\ acc.calls[idx].document = None)
    THEN acc
    ELSE batch_loop_StopsAtFailure(
             batch_item(acc, idx, documents_data[idx + 1], user_id, choices[idx + 1]),
             idx + 1, documents_data, user_id, choices)

\* for idx, doc_data in enumerate(documents_data)
RECURSIVE batch_loop(_, _, _, _, _)
batch_loop(acc, idx, documents_data, user_id, choices) ==
    IF idx >= Len(documents_data) THEN acc
    ELSE batch_loop(batch_item(acc, idx, documents_data[idx + 1], user_id,
                               choices[idx + 1]),
                    idx + 1, documents_data, user_id, choices)

\* return {'results': results, 'statistics': stats}
batch_return(acc) ==
    [results    |-> acc.results,
     statistics |-> acc.stats,
     calls      |-> acc.calls,
     db         |-> acc.db,
     now        |-> acc.now]

\* Returns [results, statistics, calls, db, now]
process_batch(db, clock, documents_data, user_id, choices) ==
    batch_return(
        batch_loop([db      |-> db,
                    now     |-> clock,
                    results |-> <<>>,
                    stats   |-> [total      |-> Len(documents_data),
                                 successful |-> 0,
                                 failed     |-> 0],
                    calls   |-> <<>>],
                   0, documents_data, user_id, choices))

\* the items of the batches: a complete certificate with one evidence file,
\* a certificate without a required key, an unknown type
BatchSubmissions ==
    {Submission("certificate", BaseData("certificate"), SubSeq(UploadedFiles, 1, 1)),
     Submission("certificate",
                WithoutKey(BaseData("certificate"), "certificate_title"), <<>>),
     Submission("diploma", BaseData("certificate"), <<>>)}

BatchChoices ==
    UNION {{[item |-> sub, choice |-> c] : c \in EnvChoices(sub)} :
              sub \in BatchSubmissions}

\* process_batch(...) has returned r
ReturnFromBatch(items, choices, r) ==
    /\ SetDb(r.db)
    /\ now' = r.now
    /\ submitted' = submitted + Len(items)
    /\ last' = [op         |-> "process_batch",
                items      |-> items,
                choices    |-> choices,
                before     |-> Tables(Db),
                results    |-> r.results,
                statistics |-> r.statistics,
                calls      |-> r.calls]

CallBatch(items, user_id, choices) ==
    ReturnFromBatch(items, choices, process_batch(Db, now, items, user_id, choices))

\* One call of process_batch
ProcessBatch ==
    /\ \E n \in 0..(MaxBatch - submitted), user_id \in UserIds :
         \E picks \in [1..n -> BatchChoices] :
           CallBatch([i \in 1..n |-> picks[i].item], user_id,
                     [i \in 1..n |-> picks[i].choice])
    /\ UNCHANGED hash_vars
    /\ UNCHANGED <<extract_vars, conc_vars>>

BatchSpec == Init /\ [][ProcessBatch]_vars

----------------------------------------------------------------------------
(* Claims on process_document *)

Called == last.op = "process_document"

PrimaryStored(id) == \E d \in documents : d.id = id

SubStored(id) == \E r \in subrecords : r.document = id

\* C1: when the sub-record creation fails after the primary record was
\* created, afterwards the primary record is not in storage and the call
\* returns None with a non-empty error list.
C1_SubRecordFailureRollsBack ==
    (Called /\ last.stage = "subrecord")
        => /\ ~PrimaryStored(last.primary)
           /\ last.document = None
           /\ last.errors # <<>>

AttachedOf(id) == {f \in evidence_files : f.document = id}

\* C2: with n evidence files of which k fail to attach, the primary record
\* and its sub-record stay in storage, the record is returned, the error
\* list has exactly k messages and the other n-k files are attached, those
\* after a failing file included.
C2_AttachmentFailureIsNotFatal ==
    (Called /\ last.stage = "returned")
        => /\ last.document # None
           /\ last.document \in documents
           /\ SubStored(last.document.id)
           /\ Len(last.errors) = Cardinality(last.env.bad)
           /\ {f.id[2] : f \in AttachedOf(last.document.id)}
                  = (1..Len(last.files)) \ last.env.bad
           /\ \A f \in AttachedOf(last.document.id) :
                  f.file = last.files[f.id[2]].name

C2_Witness ==
    /\ Called
    /\ last.stage = "returned"
    /\ Len(last.files) >= 2
    /\ last.env.bad = {1}
    /\ \E f \in AttachedOf(last.document.id) : f.id[2] = 2
    /\ Len(last.errors) = 1

\* C3: a document type outside the five known ones gives (None, errors) with
\* exactly one message and no storage write.
C3_UnknownTypeWritesNothing ==
    (Called /\ last.proof_type \notin KnownTypes)
        => /\ last.document = None
           /\ Len(last.errors) = 1
           /\ Tables(Db) = last.before

C3_Witness ==
    /\ Called
    /\ last.proof_type \notin KnownTypes
    /\ documents # {}
    /\ last.files # <<>>
    /\ last.errors = <<"Unknown proof type: diploma">>

\* C4: a known type whose data lacks a required allow-listed key ends in
\* failure with the storage as it was before the call.
C4_MissingKeyWritesNothing ==
    (/\ Called
     /\ last.proof_type \in KnownTypes
     /\ ~(RequiredKeys(last.proof_type) \subseteq Keys(last.data)))
        => /\ last.document = None
           /\ last.errors # <<>>
           /\ Tables(Db) = last.before

C4_Witness ==
    /\ Called
    /\ last.proof_type = "certificate"
    /\ "certificate_title" \notin Keys(last.data)
    /\ documents # {}
    /\ last.errors = <<"'certificate_title'">>

\* C5: a pipeline failure is returned, not raised: an unknown type and a
\* raise of the storage collaborator while the primary record or the
\* sub-record is created give (None, errors) with errors non-empty, and
\* whenever the returned record is None the error list is non-empty.
C5_FailureIsReturned ==
    Called
        => /\ (last.stage \in {"unknown_type", "document", "subrecord"}
                  => last.document = None)
           /\ (last.document = None => last.errors # <<>>)

C5_Witness ==
    /\ Called
    /\ last.stage = "document"
    /\ last.env.fault = "document"
    /\ last.document = None
    /\ Len(last.errors) = 1

----------------------------------------------------------------------------
(* Claims on process_batch *)

Batched == last.op = "process_batch"

Entries(status) == {i \in DOMAIN last.results : last.results[i].status = status}

\* C6: a failure of one item neither aborts the batch nor removes records:
\* every item is processed whatever happened to the items before it, nothing
\* stored before the batch is removed, and after the batch every item
\* reported 'success' has its primary record and its sub-record in storage.
C6_BatchIsolatesFailures ==
    Batched
        => /\ Len(last.calls) = Len(last.items)
           /\ Len(last.results) = Len(last.items)
           /\ last.before.documents \subseteq documents
           /\ last.before.subrecords \subseteq subrecords
           /\ \A i \in Entries("success") :
                  /\ \E d \in documents :
                        /\ d.id = last.results[i].document_id
                        /\ d.internal_id = last.results[i].internal_id
                  /\ SubStored(last.results[i].document_id)

C6_Witness ==
    /\ Batched
    /\ Len(last.items) = 3
    /\ last.results[1].status = "success"
    /\ last.results[2].status = "failed"
    /\ last.calls[2].stage = "subrecord"
    /\ last.results[3].status = "success"
    /\ PrimaryStored(last.results[1].document_id)
    /\ PrimaryStored(last.results[3].document_id)

\* C7: statistics.total is the number of items, successful the number of
\* 'success' entries, failed the number of 'failed' entries, and
\* total = successful + failed; a batch of 3 items whose second item has an
\* unknown type and whose other two items are created gives
\* {total: 3, successful: 2, failed: 1}.
C7_StatisticsTally ==
    Batched
        => /\ last.statistics.total = Len(last.items)
           /\ last.statistics.successful = Cardinality(Entries("success"))
           /\ last.statistics.failed = Cardinality(Entries("failed"))
           /\ last.statistics.total
                  = last.statistics.successful + last.statistics.failed
           /\ (/\ Len(last.items) = 3
               /\ last.items[2].proof_type \notin KnownTypes
               /\ last.calls[1].stage = "returned"
               /\ last.calls[3].stage = "returned")
                  => last.statistics = [total |-> 3, successful |-> 2, failed |-> 1]

C7_Witness ==
    /\ Batched
    /\ Len(last.items) = 3
    /\ last.items[2].proof_type \notin KnownTypes
    /\ last.calls[1].stage = "returned"
    /\ last.calls[1].errors # <<>>
    /\ last.calls[3].stage = "returned"
    /\ last.statistics = [total |-> 3, successful |-> 2, failed |-> 1]

\* C8: one result entry per input item, in input order: the entry of item i
\* (counted from 0) has index i and the declared type of the item; it carries
\* the identifiers of the record created for that item when its status is
\* 'success' and a non-empty error list when its status is 'failed'.
C8_ResultEntries ==
    Batched
        => /\ Len(last.results) = Len(last.items)
           /\ \A i \in DOMAIN last.results :
                LET e == last.results[i]
                IN  /\ e.index = i - 1
                    /\ e.proof_type = last.items[i].proof_type
                    /\ e.status \in {"success", "failed"}
                    /\ e.status = "success"
                          => /\ last.calls[i].primary # NoPrimary
                             /\ e.document_id = last.calls[i].primary
                             /\ e.internal_id = last.calls[i].document.internal_id
                    /\ e.status = "failed"
                          => (e.errors # <<>> /\ e.errors = last.calls[i].errors)

C8_Witness ==
    /\ Batched
    /\ Len(last.results) = 3
    /\ last.results[1].status = "failed"
    /\ last.results[2].status = "success"
    /\ last.results[2].index = 1
    /\ last.results[3].status = "failed"
    /\ last.results[3].index = 2
    /\ last.items[1].proof_type # last.items[2].proof_type

\* the items of the batch for which process_document returned a record
\* together with error messages: the record was created, evidence files
\* failed to attach
AttachFailed ==
    {i \in DOMAIN last.calls : /\ last.calls[i].document # None
                               /\ last.calls[i].errors # <<>>}

\* C29: a batch item whose record is created but whose evidence files fail
\* to attach counts as successful; its entry has status 'success', the
\* identifiers of the record and no error list, so the messages
\* process_document returned for it are nowhere in the batch result.
C29_AttachErrorsNotReported ==
    Batched =>
        /\ \A i \in AttachFailed :
              /\ last.results[i].status = "success"
              /\ last.results[i].document_id = last.calls[i].document.id
              /\ last.results[i].internal_id = last.calls[i].document.internal_id
              /\ DOMAIN last.results[i]
                     = {"index", "proof_type", "status", "document_id", "internal_id"}
        /\ last.statistics.successful
               = Cardinality({i \in DOMAIN last.calls : last.calls[i].document # None})
        /\ last.statistics.failed
               = Cardinality({i \in DOMAIN last.calls : last.calls[i].document = None})
        /\ DOMAIN last.statistics = {"total", "successful", "failed"}

\* a batch of one certificate whose evidence file fails to attach: the
\* record is stored without evidence and the batch reports one success
C29_Witness ==
    /\ Batched
    /\ Len(last.items) = 1
    /\ AttachFailed = {1}
    /\ Len(last.items[1].evidence_files) = 1
    /\ last.results[1].status = "success"
    /\ last.statistics = [total |-> 1, successful |-> 1, failed |-> 0]
    /\ PrimaryStored(last.results[1].document_id)
    /\ evidence_files = {}

----------------------------------------------------------------------------
(* The review operations of DocumentViewSet: verify and reject.  A request *)
(* names a primary key and may carry the query parameters proof_type,      *)
(* user_id and status; "" is a parameter that is absent or empty.          *)

\* DocumentViewSet.get_queryset: each parameter that is given filters the rows
get_queryset(rows, params) ==
    {d \in rows : /\ params.proof_type = "" \/ d.proof_type = params.proof_type
                  /\ params.user_id = "" \/ d.user_id = params.user_id
                  /\ params.status = "" \/ d.status = params.status}

\* document = self.get_object(); document.status = status; document.save()
\* Http404 (nothing written) when the queryset has no row with that key.
set_status(rows, pk, params, status) ==
    IF \E d \in get_queryset(rows, params) : d.id = pk
    THEN [code |-> 200,
          documents |-> {IF d.id = pk THEN [d EXCEPT !.status = status] ELSE d :
                            d \in rows}]
    ELSE [code |-> 404, documents |-> rows]

verify(rows, pk, params) == set_status(rows, pk, params, "verified")

reject(rows, pk, params) == set_status(rows, pk, params, "rejected")

NoParams == [proof_type |-> "", user_id |-> "", status |-> ""]

\* no parameter, or the status filter the review screen uses
QueryParams == {NoParams, [NoParams EXCEPT !.status = "pending"]}

\* the keys handed out so far and one that names no row
PrimaryKeys == 0..next_id

Responded(op, pk, params, r) ==
    /\ documents' = r.documents
    /\ last' = [op |-> op, pk |-> pk, params |-> params, code |-> r.code]
    /\ UNCHANGED <<subrecords, evidence_files, next_id, now, submitted>>
    /\ UNCHANGED hash_vars
    /\ UNCHANGED <<extract_vars, conc_vars>>

\* POST documents/<pk>/verify/
Verify ==
    \E pk \in PrimaryKeys, params \in QueryParams :
        Responded("verify", pk, params, verify(documents, pk, params))

\* POST documents/<pk>/reject/
Reject ==
    \E pk \in PrimaryKeys, params \in QueryParams :
        Responded("reject", pk, params, reject(documents, pk, params))

ReviewNext == ProcessDocument \/ Verify \/ Reject

ReviewSpec == Init /\ [][ReviewNext]_vars

\* C11: a record is created with status 'pending', and the status of a
\* stored record changes only from pending to verified, by verify, or from
\* pending to rejected, by reject: a verified or rejected record keeps its
\* status.
C11_StatusTransitions ==
    [][\A e \in documents' :
          IF \E d \in documents : d.id = e.id
          THEN \A d \in documents :
                 (d.id = e.id /\ d.status # e.status)
                     => /\ d.status = "pending"
                        /\ \/ e.status = "verified" /\ last'.op = "verify"
                           \/ e.status = "rejected" /\ last'.op = "reject"
          ELSE e.status = "pending"]_vars

----------------------------------------------------------------------------
(* The update DocumentViewSet inherits from ModelViewSet, through          *)
(* DocumentSerializer.  A body is a mapping of fields; the serializer      *)
(* drops the fields it declares read-only (id, internal_id,                *)
(* validation_hash, created_at, updated_at) and writes the others.         *)

read_only_fields == {"id", "internal_id", "validation_hash", "created_at", "updated_at"}

StatusChoices == {"pending", "verified", "rejected"}

\* the row after serializer.save(): every field of the body that is not
\* read-only is assigned, nothing else is touched
saved(d, body) ==
    [d EXCEPT !.onchain_data = IF "onchain_data" \in Keys(body) \ read_only_fields
                               THEN Item(body, "onchain_data") ELSE @,
              !.status = IF "status" \in Keys(body) \ read_only_fields
                         THEN Item(body, "status") ELSE @,
              !.validation_hash = IF "validation_hash" \in Keys(body) \ read_only_fields
                                  THEN Item(body, "validation_hash") ELSE @]

\* PATCH documents/<pk>/: Http404 when the queryset has no row with that
\* key, 400 when status is none of the choices, else the row is saved
partial_update(rows, pk, params, body) ==
    IF ~\E d \in get_queryset(rows, params) : d.id = pk
    THEN [code |-> 404, documents |-> rows]
    ELSE IF "status" \in Keys(body) /\ Item(body, "status") \notin StatusChoices
    THEN [code |-> 400, documents |-> rows]
    ELSE [code |-> 200,
          documents |-> {IF d.id = pk THEN saved(d, body) ELSE d : d \in rows}]

\* the bodies: a payload with another title, a status, a status that is no
\* choice, a validation hash, a payload together with the hash of it
UpdateBodies ==
    LET payload == WithValue(BaseData("certificate"), "certificate_title", S("y"))
    IN  {<< <<"onchain_data", payload>> >>,
         << <<"status", "verified">> >>,
         << <<"status", "archived">> >>,
         << <<"validation_hash", generate_hash(payload)>> >>,
         << <<"onchain_data", payload>>,
            <<"validation_hash", generate_hash(payload)>> >>}

Update ==
    \E pk \in PrimaryKeys, body \in UpdateBodies :
        /\ documents' = partial_update(documents, pk, NoParams, body).documents
        /\ last' = [op |-> "partial_update", pk |-> pk, params |-> NoParams,
                    body |-> body,
                    code |-> partial_update(documents, pk, NoParams, body).code]
        /\ UNCHANGED <<subrecords, evidence_files, next_id, now, submitted>>
        /\ UNCHANGED hash_vars
        /\ UNCHANGED <<extract_vars, conc_vars>>

\* stored records in one run of RecordSpec
MaxRecords == 1

\* the operations on stored records, while at most MaxRecords are stored
RecordNext ==
    /\ ProcessDocument \/ ProcessBatch \/ Verify \/ Reject \/ Update
    /\ Cardinality(documents') <= MaxRecords

RecordSpec == Init /\ [][RecordNext]_vars

\* C27: after any sequence of process_document, process_batch, verify,
\* reject and update, the validation_hash of every stored record is
\* generate_hash of its stored onchain_data.
C27_HashMatchesPayload ==
    \A d \in documents : d.validation_hash = generate_hash(d.onchain_data)

----------------------------------------------------------------------------
(* Concurrent submissions.  Each request runs process_document on its own  *)
(* thread against the same storage; the threads interleave between the     *)
(* storage calls.  inflight[w] holds request w's position and locals:      *)
(*   pc  "create_document", "create_subrecord", "attach", "done"           *)
(*   internal_id, onchain, validation_hash: the handler's locals           *)
(*   row      the Document the handler created (None before)               *)
(*   document process_document's local `document` (None until the handler  *)
(*            has returned)                                                *)
(*   i        the position of the next evidence file                       *)
(*   errors, stage, result: as in process_document                         *)

\* requests in one run
MaxRequests == 2

ConcSubmissions ==
    {Submission("certificate", BaseData("certificate"), SubSeq(UploadedFiles, 1, 1)),
     Submission("certificate",
                WithValue(BaseData("certificate"), "credential_type", None), <<>>),
     Submission("skill", BaseData("skill"), <<>>),
     Submission("diploma", BaseData("certificate"), <<>>)}

\* the request has returned (document, errors)
Returned(req, document, errors, stage) ==
    [req EXCEPT !.pc = "done", !.errors = errors, !.stage = stage,
                !.result = [document |-> document, errors |-> errors]]

\* the except clause of process_document, for a request
Excepted(req, exc, stage) ==
    Returned(req, None, except_clause(Db, req.document, req.errors, exc).errors, stage)

\* process_document up to the storage: the type dispatch, onchain_data,
\* generate_hash and generate_internal_id(proof_type, datetime.now())
received(sub, user_id, clock, oc) ==
    LET req == [pc |-> "create_document", sub |-> sub, user_id |-> user_id,
                internal_id |-> generate_internal_id(sub.proof_type, clock),
                onchain |-> <<>>, validation_hash |-> None,
                row |-> None, document |-> None, i |-> 1,
                errors |-> <<>>, stage |-> "received",
                result |-> None]
    IN  IF sub.proof_type \notin KnownTypes
        THEN Returned(req, None, <<"Unknown proof type: " \o sub.proof_type>>,
                      "unknown_type")
        ELSE IF oc.raised THEN Excepted(req, oc.exc, "onchain_data")
        ELSE [req EXCEPT !.onchain = oc.value,
                         !.validation_hash = generate_hash(oc.value)]

\* A request arrives and runs up to its first storage call; the instant it
\* reads is the latest instant read so far or the next one.
Receive ==
    /\ Len(inflight) < MaxRequests
    /\ \E sub \in ConcSubmissions, user_id \in UserIds, tick \in {0, 1} :
         /\ now' = now + tick
         /\ inflight' = Append(inflight,
                received(sub, user_id, now + tick,
                         IF sub.proof_type \in KnownTypes
                         THEN onchain_data(sub.proof_type, sub.data)
                         ELSE [raised |-> FALSE, value |-> <<>>]))
    /\ UNCHANGED <<documents, subrecords, evidence_files, next_id, submitted, last>>
    /\ UNCHANGED hash_vars
    /\ UNCHANGED extract_vars

document_created(w, doc) ==
    /\ SetDb(doc.db)
    /\ inflight' = [inflight EXCEPT ![w] =
           IF doc.raised THEN Excepted(@, doc.exc, "document")
           ELSE [@ EXCEPT !.pc = "create_subrecord", !.row = doc.row]]

\* Document.objects.create(...) of request w
CreateDocument ==
    /\ \E w \in DOMAIN inflight, fault \in {"none", "document"} :
         /\ inflight[w].pc = "create_document"
         /\ document_created(w,
                Document_create(Db, inflight[w].sub.proof_type,
                                inflight[w].internal_id,
                                inflight[w].validation_hash, inflight[w].onchain,
                                inflight[w].user_id, fault))
    /\ UNCHANGED <<now, submitted, last>>
    /\ UNCHANGED hash_vars
    /\ UNCHANGED extract_vars

\* after the sub-record the handler returns and `document` is assigned
subrecord_created(w, sub) ==
    /\ SetDb(sub.db)
    /\ inflight' = [inflight EXCEPT ![w] =
           IF sub.raised THEN Excepted(@, sub.exc, "subrecord")
           ELSE IF @.sub.evidence_files = <<>>
           THEN Returned([@ EXCEPT !.document = inflight[w].row],
                         @.row, <<>>, "returned")
           ELSE [@ EXCEPT !.pc = "attach", !.document = inflight[w].row]]

\* Certificate.objects.create(...) (or a sibling) of request w
CreateSubRecord ==
    /\ \E w \in DOMAIN inflight, fault \in {"none", "subrecord"} :
         /\ inflight[w].pc = "create_subrecord"
         /\ subrecord_created(w,
                SubRecord_create(Db, inflight[w].sub.proof_type, inflight[w].row,
                                 inflight[w].onchain, fault))
    /\ UNCHANGED <<now, submitted, last>>
    /\ UNCHANGED hash_vars
    /\ UNCHANGED extract_vars

\* one turn of the evidence loop of request w
file_attached(w, st) ==
    /\ SetDb(st.db)
    /\ inflight' = [inflight EXCEPT ![w] =
           IF @.i = Len(@.sub.evidence_files)
           THEN Returned(@, @.document, st.errors, "returned")
           ELSE [@ EXCEPT !.i = @ + 1, !.errors = st.errors]]

\* EvidenceFile.objects.create(...) of request w for its next file
AttachEvidence ==
    /\ \E w \in DOMAIN inflight, bad \in {{}, {1}} :
         /\ inflight[w].pc = "attach"
         /\ file_attached(w,
                attach_evidence([db |-> Db, errors |-> inflight[w].errors],
                                inflight[w].document, inflight[w].sub.proof_type,
                                <<inflight[w].sub.evidence_files[inflight[w].i]>>,
                                bad, 1))
    /\ UNCHANGED <<now, submitted, last>>
    /\ UNCHANGED hash_vars
    /\ UNCHANGED extract_vars

ConcNext == Receive \/ CreateDocument \/ CreateSubRecord \/ AttachEvidence

ConcSpec == Init /\ [][ConcNext]_vars

(* Claims on concurrent submissions *)

Collides(req) == \E d \in documents : d.internal_id = req.internal_id

\* C12: storage never holds two primary records with the same internal_id;
\* when a request reaches Document.objects.create with an identifier a
\* stored record already has, the call fails: storage is left as it was
\* (the earlier record included) and the request returns (None, errors)
\* with a non-empty error list.
C12_CollisionFailsLaterSubmission ==
    /\ [](\A d1, d2 \in documents : d1.internal_id = d2.internal_id => d1 = d2)
    /\ [][\A w \in DOMAIN inflight :
            (/\ inflight[w].pc = "create_document"
             /\ inflight'[w].pc # "create_document"
             /\ Collides(inflight[w]))
            => /\ documents' = documents
               /\ subrecords' = subrecords
               /\ evidence_files' = evidence_files
               /\ inflight'[w].pc = "done"
               /\ inflight'[w].result.document = None
               /\ inflight'[w].result.errors # <<>>]_vars

\* two requests of the same type read the same instant; the first holds the
\* record and is still at work when the second is refused
C12_Witness ==
    \E w, v \in DOMAIN inflight :
        /\ w # v
        /\ inflight[w].internal_id = inflight[v].internal_id
        /\ inflight[v].pc = "create_subrecord"
        /\ inflight[v].row \in documents
        /\ inflight[w].pc = "done"
        /\ inflight[w].stage = "document"
        /\ inflight[w].result.document = None
        /\ inflight[w].result.errors =
               <<"UNIQUE constraint failed: documents_document.internal_id">>

----------------------------------------------------------------------------
(* Claims on the stored records *)

SubRecordsOf(d) == {r \in subrecords : r.document = d.id}

\* C18: after any sequence of process_document calls, every primary record
\* in storage has exactly one sub-record, of the kind of its proof_type,
\* with the fields of the record's canonical payload.
C18_OneSubRecordPerPrimary ==
    \A d \in documents :
        /\ Cardinality(SubRecordsOf(d)) = 1
        /\ \A r \in SubRecordsOf(d) :
             /\ r.model = SubModel(d.proof_type)
             /\ r.fields = d.onchain_data

\* the allow-listed keys of each document type
AllowListed(proof_type) ==
    CASE proof_type = "certificate" ->
             {"certificate_title", "issuer_name", "completion_date",
              "credential_type", "program_category"}
      [] proof_type = "job_history" ->
             {"job_title", "employer_name", "employment_type", "start_date",
              "end_date", "job_category"}
      [] proof_type = "skill" ->
             {"skill_name", "skill_category", "proficiency_level"}
      [] proof_type = "milestone" ->
             {"milestone_type", "issuer_name", "date", "milestone_summary"}
      [] proof_type = "community" ->
             {"contribution_type", "platform_name", "date"}

\* C19: the onchain_data of every stored record has exactly the allow-listed
\* keys of its type, each once; the record a call creates has the caller's
\* value under each of them, null for an optional key the caller left out,
\* and no other key of the caller's data.
C19_PayloadHasAllowListedKeys ==
    /\ \A d \in documents :
         /\ Keys(d.onchain_data) = AllowListed(d.proof_type)
         /\ Len(d.onchain_data) = Cardinality(AllowListed(d.proof_type))
    /\ (Called /\ last.primary # NoPrimary) =>
         \A d \in documents :
            d.id = last.primary =>
               \A k \in AllowListed(d.proof_type) :
                  Item(d.onchain_data, k) =
                      (IF k \in Keys(last.data) THEN Item(last.data, k) ELSE None)

C19_Witness ==
    /\ Called
    /\ last.proof_type = "job_history"
    /\ "end_date" \notin Keys(last.data)
    /\ "notes" \in Keys(last.data)
    /\ \E d \in documents :
         /\ d.id = last.primary
         /\ Item(d.onchain_data, "end_date") = None
         /\ "notes" \notin Keys(d.onchain_data)

----------------------------------------------------------------------------
(* Python str operations used by documents/extractors.py.  A text is a     *)
(* string; its i-th character is SubSeq(s, i, i).                          *)

Char(s, i) == SubSeq(s, i, i)

Last(s) == Char(s, Len(s))

Front(s) == SubSeq(s, 1, Len(s) - 1)

UpperCase == "ABCDEFGHIJKLMNOPQRSTUVWXYZ"

LowerCase == "abcdefghijklmnopqrstuvwxyz"

Digits == {"0", "1", "2", "3", "4", "5", "6", "7", "8", "9"}

Whitespace == {" ", "\n", "\t", "\r", "\f"}

IsUpper(c) == \E i \in 1..Len(UpperCase) : Char(UpperCase, i) = c

IsLower(c) == \E i \in 1..Len(LowerCase) : Char(LowerCase, i) = c

LowerChar(c) ==
    IF IsUpper(c)
    THEN Char(LowerCase, CHOOSE i \in 1..Len(UpperCase) : Char(UpperCase, i) = c)
    ELSE c

UpperChar(c) ==
    IF IsLower(c)
    THEN Char(UpperCase, CHOOSE i \in 1..Len(LowerCase) : Char(LowerCase, i) = c)
    ELSE c

\* s.lower()
RECURSIVE lower(_)
lower(s) == IF s = "" THEN "" ELSE LowerChar(Head(s)) \o lower(Tail(s))

\* s.capitalize()
capitalize(s) == IF s = "" THEN "" ELSE UpperChar(Head(s)) \o lower(Tail(s))

\* s.lstrip(chars), s.rstrip(chars), s.strip()
RECURSIVE lstrip(_, _)
lstrip(s, chars) ==
    IF s # "" /\ Head(s) \in chars THEN lstrip(Tail(s), chars) ELSE s

RECURSIVE rstrip(_, _)
rstrip(s, chars) ==
    IF s # "" /\ Last(s) \in chars THEN rstrip(Front(s), chars) ELSE s

strip(s) == rstrip(lstrip(s, Whitespace), Whitespace)

\* s.replace(old, new) for a one-character old
RECURSIVE replace(_, _, _)
replace(s, old, new) ==
    IF s = "" THEN ""
    ELSE (IF Head(s) = old THEN new ELSE Head(s)) \o replace(Tail(s), old, new)

\* s.split(sep)[-1] for a one-character sep
RECURSIVE split_last(_, _)
split_last(s, sep) ==
    IF s = "" \/ Last(s) = sep THEN "" ELSE split_last(Front(s), sep) \o Last(s)

\* ' '.join(s.split()): the words of s with one space between them
RECURSIVE collapse(_)
collapse(s) ==
    IF s = "" THEN ""
    ELSE IF Head(s) \in Whitespace THEN " " \o collapse(lstrip(s, Whitespace))
    ELSE Head(s) \o collapse(Tail(s))

join_split(s) == collapse(strip(s))

\* sub in s
Contains(s, sub) ==
    \E p \in 1..(Len(s) - Len(sub) + 1) : SubSeq(s, p, p + Len(sub) - 1) = sub

\* s.zfill(width)
RECURSIVE zfill(_, _)
zfill(s, width) == IF Len(s) >= width THEN s ELSE zfill("0" \o s, width)

DigitValue(c) ==
    CASE c = "0" -> 0 [] c = "1" -> 1 [] c = "2" -> 2 [] c = "3" -> 3
      [] c = "4" -> 4 [] c = "5" -> 5 [] c = "6" -> 6 [] c = "7" -> 7
      [] c = "8" -> 8 [] c = "9" -> 9

\* int(s) for a text of digits
RECURSIVE int(_)
int(s) == IF s = "" THEN 0 ELSE 10 * int(Front(s)) + DigitValue(Last(s))

\* str(n) for n >= 0
RECURSIVE str(_)
str(n) ==
    IF n < 10 THEN Char("0123456789", n + 1)
    ELSE str(n \div 10) \o Char("0123456789", (n % 10) + 1)

IsDigits(s) == \A i \in 1..Len(s) : Char(s, i) \in Digits

----------------------------------------------------------------------------
(* datetime.strptime(date_str, fmt) as _strptime does it: the format       *)
(* becomes a regular expression, a directive a group of alternatives tried *)
(* in their written order and a blank of the format \s+; the expression is *)
(* matched at the start of the text, case ignored, and the match must end  *)
(* where the text ends; then the date must exist.                          *)

\* calendar.month_name[1:] and calendar.month_abbr[1:], lower case
f_month ==
    <<"january", "february", "march", "april", "may", "june", "july",
      "august", "september", "october", "november", "december">>

a_month ==
    <<"jan", "feb", "mar", "apr", "may", "jun", "jul", "aug", "sep", "oct",
      "nov", "dec">>

\* the tokens of a format: a directive ("%B") or one character
RECURSIVE Directives(_)
Directives(fmt) ==
    IF fmt = "" THEN <<>>
    ELSE IF Head(fmt) = "%"
    THEN <<SubSeq(fmt, 1, 2)>> \o Directives(SubSeq(fmt, 3, Len(fmt)))
    ELSE <<Head(fmt)>> \o Directives(Tail(fmt))

\* the text of n characters at position p, "" when the text is shorter
At(s, p, n) == IF p + n - 1 <= Len(s) THEN SubSeq(s, p, p + n - 1) ELSE ""

\* one alternative of a numeric directive: n characters at p that are in shape
Numeric(s, p, n, shape(_)) ==
    IF At(s, p, n) # "" /\ shape(At(s, p, n))
    THEN <<[end |-> p + n, value |-> int(lstrip(At(s, p, n), {" "}))]>>
    ELSE <<>>

\* one alternative of a month-name directive: names[i] at p, case ignored
Named(s, p, names, i) ==
    IF lower(At(s, p, Len(names[i]))) = names[i]
    THEN <<[end |-> p + Len(names[i]), value |-> i]>>
    ELSE <<>>

\* the names of length n that match at p, in the order of the list
RECURSIVE NamedOfLength(_, _, _, _, _)
NamedOfLength(s, p, names, n, i) ==
    IF i > Len(names) THEN <<>>
    ELSE (IF Len(names[i]) = n THEN Named(s, p, names, i) ELSE <<>>)
         \o NamedOfLength(s, p, names, n, i + 1)

\* the names from the longest to the shortest, as __seqToRE sorts them
RECURSIVE NamedByLength(_, _, _, _)
NamedByLength(s, p, names, n) ==
    IF n = 0 THEN <<>>
    ELSE NamedOfLength(s, p, names, n, 1) \o NamedByLength(s, p, names, n - 1)

\* the length of the run of whitespace at p
RECURSIVE SpaceRun(_, _)
SpaceRun(s, p) ==
    IF p <= Len(s) /\ Char(s, p) \in Whitespace THEN 1 + SpaceRun(s, p + 1) ELSE 0

\* The ways a token matches at position p, in the order the regular
\* expression engine tries them: <<[end, value], ...>>.
\*   %d  3[0-1] | [1-2]\d | 0[1-9] | [1-9] | " "[1-9]
\*   %m  1[0-2] | 0[1-9] | [1-9]
\*   %Y  \d\d\d\d
\*   %B, %b  the month names, longest first
\*   blank   \s+, the longest run first
Alternatives(tok, s, p) ==
    CASE tok = "%d" ->
             Numeric(s, p, 2, LAMBDA t : Char(t, 1) = "3" /\ Char(t, 2) \in {"0", "1"})
             \o Numeric(s, p, 2, LAMBDA t : Char(t, 1) \in {"1", "2"} /\ Char(t, 2) \in Digits)
             \o Numeric(s, p, 2, LAMBDA t : Char(t, 1) = "0" /\ Char(t, 2) \in Digits \ {"0"})
             \o Numeric(s, p, 1, LAMBDA t : t \in Digits \ {"0"})
             \o Numeric(s, p, 2, LAMBDA t : Char(t, 1) = " " /\ Char(t, 2) \in Digits \ {"0"})
      [] tok = "%m" ->
             Numeric(s, p, 2, LAMBDA t : Char(t, 1) = "1" /\ Char(t, 2) \in {"0", "1", "2"})
             \o Numeric(s, p, 2, LAMBDA t : Char(t, 1) = "0" /\ Char(t, 2) \in Digits \ {"0"})
             \o Numeric(s, p, 1, LAMBDA t : t \in Digits \ {"0"})
      [] tok = "%Y" -> Numeric(s, p, 4, IsDigits)
      [] tok = "%B" -> NamedByLength(s, p, f_month, 9)
      [] tok = "%b" -> NamedByLength(s, p, a_month, 3)
      [] tok \in Whitespace ->
             [j \in 1..SpaceRun(s, p) |->
                 [end |-> p + SpaceRun(s, p) + 1 - j, value |-> 0]]
      [] OTHER ->
             IF At(s, p, 1) # "" /\ lower(At(s, p, 1)) = lower(tok)
             THEN <<[end |-> p + 1, value |-> 0]>>
             ELSE <<>>

NoMatch == [matched |-> FALSE]

\* what a matched directive says about the date
Bind(found, tok, value) ==
    CASE tok = "%d" -> [found EXCEPT !.day = value]
      [] tok \in {"%m", "%B", "%b"} -> [found EXCEPT !.month = value]
      [] tok = "%Y" -> [found EXCEPT !.year = value]
      [] OTHER -> found

\* format_regex.match(data_string): the first way, in the engine's order,
\* of matching all the tokens from the start of the text
RECURSIVE re_match(_, _, _, _, _)
RECURSIVE first_alternative(_, _, _, _, _, _, _)
RECURSIVE or_next(_, _, _, _, _, _, _, _)

re_match(toks, k, s, p, found) ==
    IF k > Len(toks)
    THEN [matched |-> TRUE, end |-> p, found |-> found]
    ELSE first_alternative(toks, k, s, p, found, Alternatives(toks[k], s, p), 1)

first_alternative(toks, k, s, p, found, alts, j) ==
    IF j > Len(alts) THEN NoMatch
    ELSE or_next(re_match(toks, k + 1, s, alts[j].end,
                          Bind(found, toks[k], alts[j].value)),
                 toks, k, s, p, found, alts, j)

or_next(r, toks, k, s, p, found, alts, j) ==
    IF r.matched THEN r ELSE first_alternative(toks, k, s, p, found, alts, j + 1)

IsLeap(year) == year % 4 = 0 /\ (year % 100 # 0 \/ year % 400 = 0)

DaysIn(month, year) ==
    CASE month = 2 -> IF IsLeap(year) THEN 29 ELSE 28
      [] month \in {4, 6, 9, 11} -> 30
      [] OTHER -> 31

\* the date a match stands for, or ValueError: text left over after the
\* match, or a date that does not exist
parsed(s, r) ==
    IF /\ r.matched
       /\ r.end = Len(s) + 1
       /\ r.found.year >= 1
       /\ r.found.day <= DaysIn(r.found.month, r.found.year)
    THEN [raised |-> FALSE, dt |-> r.found]
    ELSE [raised |-> TRUE]

strptime(date_str, fmt) ==
    parsed(date_str,
           re_match(Directives(fmt), 1, date_str, 1,
                    [year |-> 1900, month |-> 1, day |-> 1]))

\* dt.strftime('%Y-%m'), for a year of four digits
strftime_Y_m(dt) == zfill(str(dt.year), 4) \o "-" \o zfill(str(dt.month), 2)

----------------------------------------------------------------------------
(* DocumentExtractor._normalize_date *)

formats_to_try ==
    <<"%B %d, %Y", "%b %d, %Y", "%B %d %Y", "%b %d %Y", "%B %Y", "%b %Y",
      "%m/%d/%Y", "%m-%d-%Y", "%d/%m/%Y", "%Y-%m-%d">>

\* the loop over the formats: the first that parses, from format i on
RECURSIVE try_formats(_, _, _)
RECURSIVE or_next_format(_, _, _, _)

try_formats(date_str, formats, i) ==
    IF i > Len(formats) THEN [raised |-> TRUE]
    ELSE or_next_format(strptime(date_str, formats[i]), date_str, formats, i)

or_next_format(r, date_str, formats, i) ==
    IF r.raised THEN try_formats(date_str, formats, i + 1) ELSE r

\* \w
IsWord(c) == c \in Digits \/ IsUpper(c) \/ IsLower(c) \/ c = "_"

\* \b between the characters p - 1 and p
Boundary(s, p) ==
    (p > 1 /\ IsWord(Char(s, p - 1))) # (p <= Len(s) /\ IsWord(Char(s, p)))

\* the alternatives of group 1 of the two searches, and their lengths
Shape(alt, t) ==
    CASE alt = "20\\d{2}" -> SubSeq(t, 1, 2) = "20" /\ IsDigits(t)
      [] alt = "0[1-9]"   -> Char(t, 1) = "0" /\ Char(t, 2) \in Digits \ {"0"}
      [] alt = "[1-9]"    -> t \in Digits \ {"0"}
      [] alt = "1[0-2]"   -> Char(t, 1) = "1" /\ Char(t, 2) \in {"0", "1", "2"}

ShapeLen(alt) ==
    CASE alt = "20\\d{2}" -> 4
      [] alt = "[1-9]" -> 1
      [] OTHER -> 2

\* the first of the alternatives that stands at p between two \b, "" when none
RECURSIVE FirstAt(_, _, _)
FirstAt(s, p, alts) ==
    IF alts = <<>> THEN ""
    ELSE IF /\ At(s, p, ShapeLen(alts[1])) # ""
            /\ Shape(alts[1], At(s, p, ShapeLen(alts[1])))
            /\ Boundary(s, p)
            /\ Boundary(s, p + ShapeLen(alts[1]))
    THEN At(s, p, ShapeLen(alts[1]))
    ELSE FirstAt(s, p, Tail(alts))

\* re.search: group 1 of the leftmost match from position p on, "" for None
RECURSIVE search_from(_, _, _)
search_from(s, p, alts) ==
    IF p > Len(s) THEN ""
    ELSE IF FirstAt(s, p, alts) # "" THEN FirstAt(s, p, alts)
    ELSE search_from(s, p + 1, alts)

\* re.search(r'\b(20\d{2})\b', date_str)
year_match(date_str) == search_from(date_str, 1, <<"20\\d{2}">>)

\* re.search(r'\b(0?[1-9]|1[0-2])\b', date_str): 0?[1-9] with the 0, then
\* without it, then 1[0-2]
month_match(date_str) == search_from(date_str, 1, <<"0[1-9]", "[1-9]", "1[0-2]">>)

\* the dict month_names in its order: the full names, then the abbreviations
month_names ==
    [i \in 1..12 |-> <<f_month[i], zfill(str(i), 2)>>]
    \o SelectSeq([i \in 1..12 |-> <<a_month[i], zfill(str(i), 2)>>],
                 LAMBDA it : it[1] # "may")

\* the loop over month_names: the first name found in the lowered text
RECURSIVE month_by_name(_, _, _)
month_by_name(date_str, year, i) ==
    IF i > Len(month_names) THEN date_str
    ELSE IF Contains(lower(date_str), month_names[i][1]) /\ year # ""
    THEN year \o "-" \o month_names[i][2]
    ELSE month_by_name(date_str, year, i + 1)

\* year_and_month, were the month names consulted before the month token
year_and_month_NamesFirst(date_str, year, month) ==
    IF year # "" /\ month_by_name(date_str, year, 1) # date_str
    THEN month_by_name(date_str, year, 1)
    ELSE IF year # "" /\ month # ""
    THEN year \o "-" \o zfill(month, 2)
    ELSE date_str

\* what follows the loop over the formats when none parsed
year_and_month(date_str, year, month) ==
    IF year # "" /\ month # ""
    THEN year \o "-" \o zfill(month, 2)
    ELSE month_by_name(date_str, year, 1)

after_formats(date_str, r) ==
    IF r.raised
    THEN year_and_month(date_str, year_match(date_str), month_match(date_str))
    ELSE strftime_Y_m(r.dt)

\* as _normalize_date, the formats tried from the last to the first
normalize_date_LastFormatFirst(date_str) ==
    LET n == Len(formats_to_try)
    IN  after_formats(strip(date_str),
                      try_formats(strip(date_str),
                                  [i \in 1..n |-> formats_to_try[n + 1 - i]], 1))

normalize_date(date_str) ==
    after_formats(strip(date_str), try_formats(strip(date_str), formats_to_try, 1))

----------------------------------------------------------------------------
(* Calls of the extraction engine *)

\* a call of the engine touches neither the storage nor a request
Extracted ==
    /\ UNCHANGED store_vars
    /\ UNCHANGED hash_vars
    /\ UNCHANGED conc_vars

\* date texts: the layouts of formats_to_try, texts two layouts parse,
\* texts only the searches for a year and a month recover, texts nothing
\* recovers, dates that do not exist
DateTexts ==
    {"October 28, 2023", "Oct 28, 2023", "October 2023", "10/28/2023",
     "2023-10-28", "October 28 2023", "Oct 28 2023", "Oct 2023", "10-28-2023",
     "28/10/2023", "05/10/2023", "May 5, 2021", "may 2021", "  June 2020  ",
     "October\t28,\n2023", "February 29, 2024", "February 29, 2023",
     "June 31, 2022", "31/04/2023", "sometime in March, 2022", "Fall 5 2023",
     "October 7,2023", "4 July 2026", "28.10.2023", "Sept 2021",
     "Augmented decision 2021", "10/28/23", "yesterday", "2023", "",
     "12/2023", "x 2000 1", "Q3 2023", "ref2023 5", "Summary 2021",
     "from March to January 2022", "spring of 2024", "week 7 of 1999",
     "sometime in March, 1999", "issued 5 of 2150", "sometime in March, 2150"}

\* the calls of _normalize_date on the date texts, each with its result
NormalizeDateCalls ==
    {[op |-> "_normalize_date", date_str |-> date_str,
      result |-> normalize_date(date_str)] : date_str \in DateTexts}

NormalizeDate ==
    \E call \in NormalizeDateCalls :
        /\ extraction' = call
        /\ Extracted

----------------------------------------------------------------------------
(* Claims on the extraction engine *)

\* the formats that parse the text, by their place in formats_to_try
Parsing(date_str) ==
    {i \in DOMAIN formats_to_try : ~strptime(date_str, formats_to_try[i]).raised}

\* C17: "October 28, 2023", "Oct 28, 2023", "October 2023", "10/28/2023" and
\* "2023-10-28" normalize to "2023-10"; whenever one of the explicit formats
\* parses the text, the result is the YYYY-MM of the first format, in the
\* order of the list, that parses it.
C17_DateNormalization ==
    extraction.op = "_normalize_date" =>
        /\ extraction.date_str \in {"October 28, 2023", "Oct 28, 2023",
                                    "October 2023", "10/28/2023", "2023-10-28"}
               => extraction.result = "2023-10"
        /\ LET s == strip(extraction.date_str)
           IN  Parsing(s) # {} =>
                 \E i \in Parsing(s) :
                    /\ \A j \in Parsing(s) : i <= j
                    /\ extraction.result =
                           strftime_Y_m(strptime(s, formats_to_try[i]).dt)

\* a text that %m/%d/%Y and %d/%m/%Y both parse: the earlier format decides
C17_Witness ==
    /\ extraction.op = "_normalize_date"
    /\ extraction.date_str = "05/10/2023"
    /\ Parsing("05/10/2023") = {7, 9}
    /\ extraction.result = "2023-05"

----------------------------------------------------------------------------
(* The field patterns of DocumentExtractor and the searches of the         *)
(* regular expression engine.                                              *)

\* self.extraction_patterns: for each type the fields in their order, each
\* with its patterns in their order
extraction_patterns ==
    [certificate |->
        << <<"title",
              <<"successfully completed the\\s+([A-Za-z0-9\\s\\-&,]+?)\\s+(?:Developer\\s+)?(?:Certification|Certificate)",
                "(?:Certificate of|Certification in|Course[:\\s]+)([A-Za-z0-9\\s\\-&,]+?)(?:\\n|$|Issued)",
                "(?:has successfully completed|certifies that.*?completed)\\s+(?:the\\s+)?([A-Za-z0-9\\s\\-&,]+?)(?:\\s+on|\\s+Certification|\\n)">> >>,
           <<"issuer",
              <<"^([A-Za-z]+(?:Camp|Academy|University|Institute|School|Code|Learn))",
                "(?:Executive Director|issued by),?\\s+([A-Za-z0-9\\s\\-&\\.]+?)(?:\\.|$|\\n)",
                "(?:Issued by[:\\s]+|Issuer[:\\s]+)([A-Za-z0-9\\s\\-&,\\.]+?)(?:\\n|$)",
                "(?:from|by)\\s+([A-Z][A-Za-z\\s&]+(?:University|Institute|Academy|Foundation|College|School|Company|Camp))">> >>,
           <<"date",
              <<"on\\s+([A-Z][a-z]+\\s+\\d{1,2},?\\s+\\d{4})",
                "(?:Completed|Issued|Date)[:\\s]+([A-Za-z]+\\s+\\d{1,2},?\\s+\\d{4})",
                "(\\d{1,2}[/-]\\d{1,2}[/-]\\d{2,4})",
                "([A-Z][a-z]+\\s+\\d{4})">> >>,
           <<"credential_type",
              <<"\\b(Certificate|Certification|Course|Bootcamp|Workshop|Award)\\b">> >> >>,
     job_history |->
        << <<"job_title",
              <<"(?:Position|Title|Role)[:\\s]+([A-Za-z0-9\\s\\-&,]+?)(?:\\n|$)",
                "(?:as|as a|as an)\\s+([A-Z][A-Za-z\\s]+(?:Engineer|Developer|Manager|Analyst|Designer|Specialist))">> >>,
           <<"employer",
              <<"(?:Company|Employer|Organization)[:\\s]+([A-Za-z0-9\\s\\-&,\\.]+?)(?:\\n|$)",
                "(?:at|with)\\s+([A-Z][A-Za-z\\s&]+(?:Inc|LLC|Ltd|Corp|Company))">> >>,
           <<"start_date",
              <<"(?:Start Date|From|Beginning)[:\\s]+([A-Za-z]+\\s+\\d{4})",
                "(?:From|Since)\\s+([A-Z][a-z]+\\s+\\d{4})">> >>,
           <<"employment_type",
              <<"\\b(Full-time|Part-time|Contract|Intern|Contributor|Full time|Part time)\\b">> >> >>]

\* the pattern at place i of a field of a type
Pattern(proof_type, field, i) ==
    LET fields == extraction_patterns[proof_type]
    IN  fields[CHOOSE k \in DOMAIN fields : fields[k][1] = field][2][i]

\* recognized texts: what the PDF reader or the OCR returns for a document
RecognizedTexts ==
    <<"",
      "freeCodeCamp\nJane Doe has successfully completed the Responsive Web Design Developer Certification on October 28, 2023\nExecutive Director, freeCodeCamp.org",
      "Issuer: Acme\nissued by ..",
      "Certificate of Data Science\nIssued by: Acme Institute",
      "Certificate of Data Science",
      "Course: ,\nJane has successfully completed the Go Bootcamp on 10/28/2023",
      "Position: Senior Engineer\nCompany: Initech LLC.\nStart Date: March 2019\nFull time",
      "Worked as a Data Analyst at Globex Corp\nSince June 2020\nContract",
      "Role: ;\nemployed as an Office Manager with Hooli Inc\nFrom: Smarch 2019",
      "Award\nDate: Octember 5, 2023">>

\* re.search(pattern, text, re.IGNORECASE | re.MULTILINE) for the patterns of
\* extraction_patterns on the texts of RecognizedTexts: <<pattern, text,
\* match.group(1)>> for each search that finds a match, as the engine
\* computes them
SearchTable ==
    {<<Pattern("certificate", "title", 1), RecognizedTexts[2], "Responsive Web Design">>,
     <<Pattern("certificate", "title", 3), RecognizedTexts[2], "Responsive Web Design Developer">>,
     <<Pattern("certificate", "issuer", 1), RecognizedTexts[2], "freeCodeCamp">>,
     <<Pattern("certificate", "issuer", 2), RecognizedTexts[2], "freeCodeCamp">>,
     <<Pattern("certificate", "date", 1), RecognizedTexts[2], "October 28, 2023">>,
     <<Pattern("certificate", "credential_type", 1), RecognizedTexts[2], "Certification">>,
     <<Pattern("job_history", "job_title", 2), RecognizedTexts[2], "successfully completed the Responsive Web Design Developer">>,
     <<Pattern("certificate", "issuer", 2), RecognizedTexts[3], ".">>,
     <<Pattern("certificate", "issuer", 3), RecognizedTexts[3], "Acme">>,
     <<Pattern("certificate", "title", 2), RecognizedTexts[4], " Data Science">>,
     <<Pattern("certificate", "issuer", 3), RecognizedTexts[4], "Acme Institute">>,
     <<Pattern("certificate", "credential_type", 1), RecognizedTexts[4], "Certificate">>,
     <<Pattern("certificate", "title", 2), RecognizedTexts[5], " Data Science">>,
     <<Pattern("certificate", "credential_type", 1), RecognizedTexts[5], "Certificate">>,
     <<Pattern("certificate", "title", 2), RecognizedTexts[6], ",">>,
     <<Pattern("certificate", "title", 3), RecognizedTexts[6], "Go Bootcamp">>,
     <<Pattern("certificate", "date", 3), RecognizedTexts[6], "10/28/2023">>,
     <<Pattern("certificate", "credential_type", 1), RecognizedTexts[6], "Course">>,
     <<Pattern("certificate", "date", 4), RecognizedTexts[7], "March 2019">>,
     <<Pattern("job_history", "job_title", 1), RecognizedTexts[7], "Senior Engineer">>,
     <<Pattern("job_history", "employer", 1), RecognizedTexts[7], "Initech LLC.">>,
     <<Pattern("job_history", "start_date", 1), RecognizedTexts[7], "March 2019">>,
     <<Pattern("job_history", "employment_type", 1), RecognizedTexts[7], "Full time">>,
     <<Pattern("certificate", "date", 4), RecognizedTexts[8], "June 2020">>,
     <<Pattern("job_history", "job_title", 2), RecognizedTexts[8], "a Data Analyst">>,
     <<Pattern("job_history", "employer", 2), RecognizedTexts[8], "Globex Corp\nSinc">>,
     <<Pattern("job_history", "start_date", 2), RecognizedTexts[8], "June 2020">>,
     <<Pattern("job_history", "employment_type", 1), RecognizedTexts[8], "Contract">>,
     <<Pattern("certificate", "date", 4), RecognizedTexts[9], "Smarch 2019">>,
     <<Pattern("job_history", "job_title", 2), RecognizedTexts[9], "an Office Manager">>,
     <<Pattern("job_history", "employer", 2), RecognizedTexts[9], "Hooli Inc">>,
     <<Pattern("job_history", "start_date", 1), RecognizedTexts[9], "Smarch 2019">>,
     <<Pattern("certificate", "date", 2), RecognizedTexts[10], "Octember 5, 2023">>,
     <<Pattern("certificate", "credential_type", 1), RecognizedTexts[10], "Award">>}

\* match = re.search(pattern, text, ...): [matched, group1]
re_search(pattern, text) ==
    IF \E row \in SearchTable : row[1] = pattern /\ row[2] = text
    THEN [matched |-> TRUE,
          group1 |-> (CHOOSE row \in SearchTable :
                          row[1] = pattern /\ row[2] = text)[3]]
    ELSE [matched |-> FALSE, group1 |-> ""]

----------------------------------------------------------------------------
(* DocumentExtractor._extract_structured_data: the fields of a type are    *)
(* searched in their order, each over its patterns in their order.  The    *)
(* state of the loops is [extracted, searched]: the mapping built so far   *)
(* and the <<field, place>> of every pattern handed to re.search.          *)

\* d[k] = v
SetItem(d, k, v) ==
    IF k \in Keys(d)
    THEN [i \in DOMAIN d |-> IF d[i][1] = k THEN <<k, v>> ELSE d[i]]
    ELSE Append(d, <<k, v>>)

clean_extracted_value(value, field) ==
    LET cleaned == rstrip(join_split(value), {".", ",", ";", ":"})
    IN  IF Contains(field, "date") THEN normalize_date(cleaned)
        ELSE IF field = "credential_type" THEN capitalize(cleaned)
        ELSE IF field = "employment_type" THEN replace(lower(cleaned), " ", "-")
        ELSE cleaned

RECURSIVE search_patterns(_, _, _, _, _)

\* as use_value, without the test of the cleaned value
use_value_TakesEmpty(st, text, field, pattern_list, i, value) ==
    [st EXCEPT !.extracted = SetItem(@, field, value)]

\* if value: extracted[field] = value; break
use_value(st, text, field, pattern_list, i, value) ==
    IF value # ""
    THEN [st EXCEPT !.extracted = SetItem(@, field, value)]
    ELSE search_patterns(st, text, field, pattern_list, i + 1)

\* if match: value = match.group(1).strip(), cleaned
use_match(st, text, field, pattern_list, i, match) ==
    IF match.matched
    THEN use_value(st, text, field, pattern_list, i,
                   clean_extracted_value(strip(match.group1), field))
    ELSE search_patterns(st, text, field, pattern_list, i + 1)

\* for pattern in pattern_list, from place i on
search_patterns(st, text, field, pattern_list, i) ==
    IF i > Len(pattern_list) THEN st
    ELSE use_match([st EXCEPT !.searched = Append(@, <<field, i>>)],
                   text, field, pattern_list, i,
                   re_search(pattern_list[i], text))

\* for field, pattern_list in patterns.items(), from place k on
RECURSIVE search_fields(_, _, _, _)
search_fields(st, text, patterns, k) ==
    IF k > Len(patterns) THEN st
    ELSE search_fields(search_patterns(st, text, patterns[k][1], patterns[k][2], 1),
                       text, patterns, k + 1)

\* if from in data: processed[to] = data[from]
Renamed(data, processed, from, to) ==
    IF from \in Keys(data) THEN SetItem(processed, to, Item(data, from))
    ELSE processed

\* credential_type_kept, were a label outside the allowed ones replaced by
\* 'Course' instead of being left out
credential_type_kept_DefaultsToCourse(data, processed) ==
    IF "credential_type" \notin Keys(data) THEN processed
    ELSE LET capitalized == capitalize(Item(data, "credential_type"))
         IN  SetItem(processed, "credential_type",
                     IF capitalized \in {"Bootcamp", "Workshop", "Award"}
                     THEN capitalized ELSE "Course")

\* the credential type kept by _post_process_data
credential_type_kept(data, processed) ==
    IF "credential_type" \notin Keys(data) THEN processed
    ELSE LET capitalized == capitalize(Item(data, "credential_type"))
             cred_type == IF capitalized \in {"Certificate", "Certification"}
                          THEN "Course" ELSE capitalized
         IN  IF cred_type \in {"Course", "Bootcamp", "Workshop", "Award"}
             THEN SetItem(processed, "credential_type", cred_type)
             ELSE processed

\* the employment type kept by _post_process_data
employment_type_kept(data, processed) ==
    IF "employment_type" \notin Keys(data) THEN processed
    ELSE LET emp_type == replace(lower(Item(data, "employment_type")), " ", "-")
         IN  IF emp_type \in {"full-time", "part-time", "intern",
                              "contributor", "contract"}
             THEN SetItem(processed, "employment_type", emp_type)
             ELSE processed

post_process_data(data, proof_type) ==
    IF proof_type = "certificate"
    THEN credential_type_kept(data,
             Renamed(data,
                 Renamed(data,
                     Renamed(data, <<>>, "title", "certificate_title"),
                     "issuer", "issuer_name"),
                 "date", "completion_date"))
    ELSE IF proof_type = "job_history"
    THEN employment_type_kept(data,
             Renamed(data,
                 Renamed(data,
                     Renamed(data, <<>>, "job_title", "job_title"),
                     "employer", "employer_name"),
                 "start_date", "start_date"))
    ELSE <<>>

\* the loops of _extract_structured_data: [extracted, searched]
matched_fields(text, proof_type) ==
    IF proof_type \notin DOMAIN extraction_patterns
    THEN [extracted |-> <<>>, searched |-> <<>>]
    ELSE search_fields([extracted |-> <<>>, searched |-> <<>>], text,
                       extraction_patterns[proof_type], 1)

extract_structured_data(text, proof_type) ==
    post_process_data(matched_fields(text, proof_type).extracted, proof_type)

\* one call of _extract_structured_data; the call records the mapping the
\* loops built and the patterns they searched beside what is returned
structured_call(text, proof_type, st) ==
    [op |-> "_extract_structured_data", text |-> text,
     proof_type |-> proof_type, extracted |-> st.extracted,
     searched |-> st.searched,
     result |-> post_process_data(st.extracted, proof_type)]

\* the calls of _extract_structured_data on the recognized texts
ExtractStructuredDataCalls ==
    {structured_call(RecognizedTexts[k], proof_type,
                     matched_fields(RecognizedTexts[k], proof_type)) :
        k \in DOMAIN RecognizedTexts, proof_type \in KnownTypes}

ExtractStructuredData ==
    \E call \in ExtractStructuredDataCalls :
        /\ extraction' = call
        /\ Extracted

----------------------------------------------------------------------------
(* DocumentExtractor.extract_from_file and its two readers.  An uploaded   *)
(* file is [name, content]; the content is what the collaborators find in  *)
(* the bytes: the pages of a PDF, an image with its mode and the text the  *)
(* OCR reads from it, or neither.  env tells whether PyPDF2, PIL and       *)
(* pytesseract were imported and whether the tesseract program runs.       *)
(* A reader returns or raises: [raised, value, exc, msg, calls], calls     *)
(* being the collaborator calls made.                                      *)

Returns(value, calls) ==
    [raised |-> FALSE, value |-> value, exc |-> "", msg |-> "", calls |-> calls]

Raises(exc, msg, calls) ==
    [raised |-> TRUE, value |-> "", exc |-> exc, msg |-> msg, calls |-> calls]

Page(text) == [readable |-> TRUE, text |-> text]

DamagedPage == [readable |-> FALSE, text |-> ""]

PdfContent(pages) == [kind |-> "pdf", pages |-> pages, mode |-> "", text |-> ""]

ImageContent(mode, text) ==
    [kind |-> "image", pages |-> <<>>, mode |-> mode, text |-> text]

OtherContent == [kind |-> "other", pages |-> <<>>, mode |-> "", text |-> ""]

\* for page_num in range(len(pdf_reader.pages)): text += page.extract_text() + "\n"
RECURSIVE extract_pages(_, _, _, _)
extract_pages(pages, page_num, text, calls) ==
    IF page_num > Len(pages) THEN Returns(strip(text), calls)
    ELSE IF ~pages[page_num].readable
    THEN Raises("PdfReadError", "Invalid Elementary Object",
                Append(calls, "page.extract_text"))
    ELSE extract_pages(pages, page_num + 1,
                       text \o pages[page_num].text \o "\n",
                       Append(calls, "page.extract_text"))

\* PyPDF2.PdfReader(io.BytesIO(file_obj.read())) and the loop over its pages
read_pdf(content) ==
    IF content.kind # "pdf"
    THEN Raises("PdfReadError", "EOF marker not found", <<"PyPDF2.PdfReader">>)
    ELSE extract_pages(content.pages, 1, "", <<"PyPDF2.PdfReader">>)

\* Image.open, image.convert('RGB') and pytesseract.image_to_string
read_image(content, env) ==
    IF content.kind # "image"
    THEN Raises("UnidentifiedImageError", "cannot identify image file",
                <<"Image.open">>)
    ELSE IF ~env.tesseract
    THEN Raises("TesseractNotFoundError",
                "/usr/bin/tesseract is not installed or it's not in your PATH.",
                <<"Image.open">>
                    \o (IF content.mode # "RGB" THEN <<"image.convert">> ELSE <<>>)
                    \o <<"pytesseract.image_to_string">>)
    ELSE Returns(strip(content.text),
                 <<"Image.open">>
                    \o (IF content.mode # "RGB" THEN <<"image.convert">> ELSE <<>>)
                    \o <<"pytesseract.image_to_string">>)

\* except Exception as e: raise Exception(f"{prefix}{str(e)}")
reraised(prefix, r) ==
    IF r.raised THEN Raises("Exception", prefix \o r.msg, r.calls) ELSE r

extract_from_pdf(file_obj, env) ==
    IF ~env.imported
    THEN Raises("ImportError",
                "PyPDF2 is required for PDF extraction. Install with: pip install PyPDF2",
                <<>>)
    ELSE reraised("PDF extraction failed: ", read_pdf(file_obj.content))

extract_from_image(file_obj, env) ==
    IF ~env.imported
    THEN Raises("ImportError",
                "PIL and pytesseract are required for image extraction. "
                    \o "Install with: pip install Pillow pytesseract",
                <<>>)
    ELSE reraised("Image extraction failed: ", read_image(file_obj.content, env))

\* file_obj.name.split('.')[-1].lower()
file_extension(name) == lower(split_last(name, "."))

\* what extract_from_file gives back: (data, text), or the exception that
\* leaves it
Outcome(raised, data, text, calls) ==
    [raised |-> raised, data |-> data, text |-> text, calls |-> calls]

\* as caught, without the except clause
caught_Propagates(proof_type, r) ==
    IF r.raised
    THEN Outcome(TRUE, <<>>, r.msg, r.calls)
    ELSE Outcome(FALSE, extract_structured_data(r.value, proof_type), r.value,
                 r.calls)

\* the try block of extract_from_file after the reader: the fields of the
\* text, or except Exception as e: return {}, f"Error extracting data: ..."
caught(proof_type, r) ==
    IF r.raised
    THEN Outcome(FALSE, <<>>, "Error extracting data: " \o r.msg, r.calls)
    ELSE Outcome(FALSE, extract_structured_data(r.value, proof_type), r.value,
                 r.calls)

\* as extract_from_file, handing every other file to the PDF reader
extract_from_file_ReadsOthersAsPdf(file_obj, proof_type, env) ==
    IF file_extension(file_obj.name) \in {"png", "jpg", "jpeg", "gif", "tiff"}
    THEN caught(proof_type, extract_from_image(file_obj, env))
    ELSE caught(proof_type, extract_from_pdf(file_obj, env))

extract_from_file(file_obj, proof_type, env) ==
    IF file_extension(file_obj.name) = "pdf"
    THEN caught(proof_type, extract_from_pdf(file_obj, env))
    ELSE IF file_extension(file_obj.name) \in {"png", "jpg", "jpeg", "gif", "tiff"}
    THEN caught(proof_type, extract_from_image(file_obj, env))
    ELSE Outcome(FALSE, <<>>, "Unsupported file type", <<>>)

\* names of uploaded files
FileNames ==
    {"certificate.pdf", "scan.PDF", "photo.png", "photo.JPG", "badge.jpeg",
     "badge.gif", "page.tiff", "page.tif", "setup.exe", "archive.tar.gz",
     "report.pdf.exe", "README", "pdf", ""}

\* contents of uploaded files: the texts the readers return are those of
\* RecognizedTexts
FileContents ==
    {PdfContent(<<>>),
     PdfContent(<<Page(RecognizedTexts[2])>>),
     PdfContent(<<Page("Certificate of Data Science"),
                  Page("Issued by: Acme Institute")>>),
     PdfContent(<<Page("  " \o RecognizedTexts[7] \o " \n"), Page("")>>),
     PdfContent(<<Page(RecognizedTexts[5]), DamagedPage>>),
     ImageContent("RGB", RecognizedTexts[6] \o "\n\f"),
     ImageContent("L", RecognizedTexts[10] \o "\n"),
     ImageContent("RGB", ""),
     OtherContent}

Environments ==
    {[imported |-> TRUE, tesseract |-> TRUE],
     [imported |-> TRUE, tesseract |-> FALSE],
     [imported |-> FALSE, tesseract |-> FALSE]}

\* the document types files are uploaded for
UploadTypes == {"certificate", "job_history", "milestone"}

\* one call of extract_from_file
file_call(file_obj, proof_type, env) ==
    [op |-> "extract_from_file", file_obj |-> file_obj,
     proof_type |-> proof_type, env |-> env,
     result |-> extract_from_file(file_obj, proof_type, env)]

\* the calls of extract_from_file on the uploaded files
ExtractFromFileCalls ==
    {file_call([name |-> name, content |-> content], proof_type, env) :
        name \in FileNames, content \in FileContents,
        proof_type \in UploadTypes, env \in Environments}

ExtractFromFile ==
    \E call \in ExtractFromFileCalls :
        /\ extraction' = call
        /\ Extracted

----------------------------------------------------------------------------
(* DocumentExtractor.get_extraction_confidence and suggest_missing_fields. *)
(* A float is kept as the exact fraction it stands for, in lowest terms.   *)

RECURSIVE gcd(_, _)
gcd(a, b) == IF b = 0 THEN a ELSE gcd(b, a % b)

\* the number num / den, den > 0
Fraction(num, den) ==
    [num |-> num \div gcd(num, den), den |-> den \div gcd(num, den)]

\* x < n and x >= n for a fraction x and an integer n
LessThan(x, n) == x.num < n * x.den

AtLeast(x, n) == x.num >= n * x.den

\* required_fields of get_extraction_confidence
confidence_required_fields ==
    [certificate |-> <<"certificate_title", "issuer_name", "completion_date">>,
     job_history |-> <<"job_title", "employer_name", "start_date">>]

\* as found_required, counting every required field that is present
found_required_CountsEmptyValues(extracted_data, required) ==
    Cardinality({i \in DOMAIN required : required[i] \in Keys(extracted_data)})

\* sum(1 for field in required if field in extracted_data and extracted_data[field])
found_required(extracted_data, required) ==
    Cardinality({i \in DOMAIN required :
                    /\ required[i] \in Keys(extracted_data)
                    /\ Item(extracted_data, required[i]) # ""})

\* field_confidence, were a field with an empty value labelled 'low'
RECURSIVE field_confidence_LabelsEmptyValues(_, _, _)
field_confidence_LabelsEmptyValues(extracted_data, i, fields) ==
    IF i > Len(extracted_data) THEN fields
    ELSE field_confidence_LabelsEmptyValues(extracted_data, i + 1,
             SetItem(fields, extracted_data[i][1],
                     IF Len(extracted_data[i][2]) > 3 THEN "high" ELSE "low"))

\* confidence['fields']: 'high' for a value longer than three characters,
\* 'low' for a shorter one, nothing for an empty one
RECURSIVE field_confidence(_, _, _)
field_confidence(extracted_data, i, fields) ==
    IF i > Len(extracted_data) THEN fields
    ELSE field_confidence(extracted_data, i + 1,
             IF extracted_data[i][2] = "" THEN fields
             ELSE SetItem(fields, extracted_data[i][1],
                          IF Len(extracted_data[i][2]) > 3 THEN "high" ELSE "low"))

\* get_extraction_confidence, were the fields labelled before the required
\* fields of the type are looked up
get_extraction_confidence_LabelsAnyType(extracted_data, proof_type) ==
    IF proof_type \notin DOMAIN confidence_required_fields
    THEN [overall |-> Fraction(0, 1),
          fields |-> field_confidence(extracted_data, 1, <<>>)]
    ELSE [overall |->
              Fraction(found_required(extracted_data,
                                      confidence_required_fields[proof_type]) * 100,
                       Len(confidence_required_fields[proof_type])),
          fields |-> field_confidence(extracted_data, 1, <<>>)]

get_extraction_confidence(extracted_data, proof_type) ==
    IF proof_type \notin DOMAIN confidence_required_fields
    THEN [overall |-> Fraction(0, 1), fields |-> <<>>]
    ELSE [overall |->
              Fraction(found_required(extracted_data,
                                      confidence_required_fields[proof_type]) * 100,
                       Len(confidence_required_fields[proof_type])),
          fields |-> field_confidence(extracted_data, 1, <<>>)]

\* required_fields of suggest_missing_fields: <<field, default_value>>
suggested_defaults ==
    [certificate |-> << <<"certificate_title", "Professional Certificate">>,
                        <<"program_category", "Professional Development">> >>,
     job_history |-> << <<"job_category", "General">> >>]

\* suggest_missing_fields, were a field with an empty value taken for a
\* missing one
suggest_missing_fields_ForEmptyValues(extracted_data, proof_type) ==
    IF proof_type \notin DOMAIN suggested_defaults THEN <<>>
    ELSE SelectSeq(suggested_defaults[proof_type],
                   LAMBDA item : \/ item[1] \notin Keys(extracted_data)
                                 \/ Item(extracted_data, item[1]) = "")

suggest_missing_fields(extracted_data, proof_type) ==
    IF proof_type \notin DOMAIN suggested_defaults THEN <<>>
    ELSE SelectSeq(suggested_defaults[proof_type],
                   LAMBDA item : item[1] \notin Keys(extracted_data))

\* values of extracted fields: empty, short, long
FieldValues == {"", "Go", "Acme Institute"}

\* the mapping with the keys of present, in the order of keys, and the
\* values of value
MappingOf(keys, present, value) ==
    LET ks == SelectSeq(keys, LAMBDA k : k \in present)
    IN  [i \in DOMAIN ks |-> <<ks[i], value[ks[i]]>>]

\* mappings over the required fields of a type, with or without a further
\* field
ExtractedMappings(keys) ==
    {MappingOf(keys, present, value) \o further :
        present \in SUBSET {keys[i] : i \in DOMAIN keys},
        value \in [{keys[i] : i \in DOMAIN keys} -> FieldValues],
        further \in {<<>>, << <<"credential_type", "Course">> >>}}

\* one call of get_extraction_confidence
confidence_call(extracted_data, proof_type) ==
    [op |-> "get_extraction_confidence", extracted_data |-> extracted_data,
     proof_type |-> proof_type,
     result |-> get_extraction_confidence(extracted_data, proof_type)]

\* the calls of get_extraction_confidence: for certificate and job_history
\* on mappings over their fields, for skill on those of certificate, for
\* milestone, community and a type the models do not know on those of
\* job_history; for certificate on values of three and of four characters
GetExtractionConfidenceCalls ==
    {confidence_call(extracted_data, proof_type) :
        extracted_data \in ExtractedMappings(confidence_required_fields.certificate),
        proof_type \in {"certificate", "skill"}}
    \cup
    {confidence_call(extracted_data, proof_type) :
        extracted_data \in ExtractedMappings(confidence_required_fields.job_history),
        proof_type \in {"job_history", "milestone", "community", "diploma"}}
    \cup
    {confidence_call(<< <<field, value>> >>, "certificate") :
        field \in {"certificate_title", "program_category"},
        value \in {"PHP", "Java"}}

GetExtractionConfidence ==
    \E call \in GetExtractionConfidenceCalls :
        /\ extraction' = call
        /\ Extracted

\* labels a document may carry for its credential type: the allowed ones in
\* several spellings, the two synonyms, labels outside the set
CredentialLabels ==
    {"Course", "bootcamp", "WORKSHOP", "Award", "certificate",
     "CERTIFICATION", "Diploma", "degree", "Course work", ""}

\* labels a document may carry for its employment type
EmploymentLabels ==
    {"Full Time", "full-time", "part time", "Intern", "CONTRACTOR",
     "contributor", "Contract", "Freelance", "full  time", ""}

\* one call of _post_process_data
post_process_call(data, proof_type) ==
    [op |-> "_post_process_data", data |-> data, proof_type |-> proof_type,
     result |-> post_process_data(data, proof_type)]

\* the calls of _post_process_data: mappings with a label of either kind,
\* with or without the fields found before it, for the two types the
\* function handles and for one it does not
PostProcessDataCalls ==
    {post_process_call(found \o << <<"credential_type", label>> >>, proof_type) :
        found \in {<<>>, << <<"title", "Advanced Python">>,
                            <<"date", "2023-10">> >>},
        label \in CredentialLabels,
        proof_type \in {"certificate", "skill"}}
    \cup
    {post_process_call(found \o << <<"employment_type", label>> >>, proof_type) :
        found \in {<<>>, << <<"job_title", "Engineer">>,
                            <<"employer", "Acme Corp">> >>},
        label \in EmploymentLabels,
        proof_type \in {"job_history", "certificate"}}

PostProcessData ==
    \E call \in PostProcessDataCalls :
        /\ extraction' = call
        /\ Extracted

\* the fields suggest_missing_fields has a default for, of either type
SuggestedFields == <<"certificate_title", "program_category", "job_category">>

\* one call of suggest_missing_fields; the function reads extracted_data
\* and writes only its own suggestions, so the mapping is after the call
\* what it was before
suggest_call(extracted_data, proof_type) ==
    [op |-> "suggest_missing_fields", extracted_data |-> extracted_data,
     proof_type |-> proof_type, after |-> extracted_data,
     result |-> suggest_missing_fields(extracted_data, proof_type)]

\* the calls of suggest_missing_fields: every choice of the fields with a
\* default, each absent, empty or filled, beside an issuer, for the two
\* types with defaults and two without
SuggestMissingFieldsCalls ==
    {suggest_call(<< <<"issuer_name", "Acme Institute">> >>
                      \o MappingOf(SuggestedFields, present, value),
                  proof_type) :
        present \in SUBSET {SuggestedFields[i] : i \in DOMAIN SuggestedFields},
        value \in [{SuggestedFields[i] : i \in DOMAIN SuggestedFields}
                       -> {"", "Acme Institute"}],
        proof_type \in {"certificate", "job_history", "skill", "diploma"}}

SuggestMissingFields ==
    \E call \in SuggestMissingFieldsCalls :
        /\ extraction' = call
        /\ Extracted

----------------------------------------------------------------------------
ExtractNext == NormalizeDate \/ ExtractStructuredData \/ ExtractFromFile
                   \/ GetExtractionConfidence \/ PostProcessData
                   \/ SuggestMissingFields

ExtractSpec == Init /\ [][ExtractNext]_vars

----------------------------------------------------------------------------
(* Claims on the field pattern matcher *)

\* the places of the patterns of a field a call searched, in the order of
\* the searches
SearchedPlaces(call, field) ==
    LET of_field == SelectSeq(call.searched, LAMBDA p : p[1] = field)
    IN  [j \in DOMAIN of_field |-> of_field[j][2]]

\* the places of the patterns whose first capture group is non-empty
CapturingPlaces(pattern_list, text) ==
    {i \in DOMAIN pattern_list :
        /\ re_search(pattern_list[i], text).matched
        /\ re_search(pattern_list[i], text).group1 # ""}

\* the places of the patterns whose first capture group is non-empty once
\* trimmed and normalized
YieldingPlaces(pattern_list, text, field) ==
    {i \in DOMAIN pattern_list :
        /\ re_search(pattern_list[i], text).matched
        /\ clean_extracted_value(strip(re_search(pattern_list[i], text).group1),
                                 field) # ""}

\* the first of the places decides the field: the patterns up to it were
\* searched in their order, none after it, and the field holds its capture
\* normalized; with no such place every pattern was searched and the field
\* is absent
FirstPlaceDecides(call, field, pattern_list, places) ==
    IF places = {}
    THEN /\ field \notin Keys(call.extracted)
         /\ SearchedPlaces(call, field) = [j \in DOMAIN pattern_list |-> j]
    ELSE LET i == CHOOSE i \in places : \A j \in places : i <= j
         IN  /\ field \in Keys(call.extracted)
             /\ Item(call.extracted, field) =
                    clean_extracted_value(
                        strip(re_search(pattern_list[i], call.text).group1), field)
             /\ SearchedPlaces(call, field) = [j \in 1..i |-> j]

\* C20 as stated: for each field of the type the first pattern, in declared
\* order, whose first capture group is non-empty decides the field: its
\* capture normalized is the value and no later pattern is searched; a field
\* with no such pattern is absent.
C20_FirstCapturingPatternDecides ==
    (extraction.op = "_extract_structured_data"
        /\ extraction.proof_type \in DOMAIN extraction_patterns) =>
        LET patterns == extraction_patterns[extraction.proof_type]
        IN  \A k \in DOMAIN patterns :
                FirstPlaceDecides(extraction, patterns[k][1], patterns[k][2],
                    CapturingPlaces(patterns[k][2], extraction.text))

\* C20: for each field of the type the first pattern, in declared order,
\* whose first capture group is still non-empty after trimming and
\* normalization decides the field: that normalized capture is the value
\* and no later pattern is searched; a field with no such pattern is absent
\* from the mapping, and the call returns.
C20_FirstYieldingPatternDecides ==
    (extraction.op = "_extract_structured_data"
        /\ extraction.proof_type \in DOMAIN extraction_patterns) =>
        LET patterns == extraction_patterns[extraction.proof_type]
        IN  /\ \A k \in DOMAIN patterns :
                  FirstPlaceDecides(extraction, patterns[k][1], patterns[k][2],
                      YieldingPlaces(patterns[k][2], extraction.text,
                                     patterns[k][1]))
            /\ Keys(extraction.extracted) \subseteq
                   {patterns[k][1] : k \in DOMAIN patterns}

\* the second issuer pattern captures "." which normalizes to nothing, the
\* third decides the field and the fourth is not searched; the title has no
\* matching pattern and is absent
C20_Witness ==
    /\ extraction.op = "_extract_structured_data"
    /\ extraction.proof_type = "certificate"
    /\ extraction.text = RecognizedTexts[3]
    /\ re_search(Pattern("certificate", "issuer", 2), extraction.text).group1 = "."
    /\ SearchedPlaces(extraction, "issuer") = <<1, 2, 3>>
    /\ Item(extraction.extracted, "issuer") = "Acme"
    /\ "title" \notin Keys(extraction.extracted)

----------------------------------------------------------------------------
(* Claims on extract_from_file *)

SupportedExtensions == {"pdf", "png", "jpg", "jpeg", "gif", "tiff"}

\* C13: extract_from_file on a file whose extension is none of pdf, png, jpg,
\* jpeg, gif, tiff returns empty fields and a non-empty message in the place
\* of the raw text, does not raise, and calls neither the PDF reader nor the
\* OCR.
C13_UnsupportedExtension ==
    (extraction.op = "extract_from_file"
        /\ lower(split_last(extraction.file_obj.name, ".")) \notin SupportedExtensions)
    => /\ ~extraction.result.raised
       /\ extraction.result.data = <<>>
       /\ extraction.result.text # ""
       /\ extraction.result.calls = <<>>

\* a readable PDF uploaded under the name setup.exe, with the libraries
\* imported: no reader is called
C13_Witness ==
    /\ extraction.op = "extract_from_file"
    /\ extraction.file_obj.name = "setup.exe"
    /\ extraction.file_obj.content = PdfContent(<<Page(RecognizedTexts[2])>>)
    /\ extraction.env.imported
    /\ extraction.result = Outcome(FALSE, <<>>, "Unsupported file type", <<>>)

\* the collaborator extract_from_file hands the file to raises
CollaboratorRaises(call) ==
    /\ call.env.imported
    /\ \/ /\ lower(split_last(call.file_obj.name, ".")) = "pdf"
          /\ read_pdf(call.file_obj.content).raised
       \/ /\ lower(split_last(call.file_obj.name, ".")) \in
                 {"png", "jpg", "jpeg", "gif", "tiff"}
          /\ read_image(call.file_obj.content, call.env).raised

\* the message of the exception the collaborator raises
CollaboratorMessage(call) ==
    IF lower(split_last(call.file_obj.name, ".")) = "pdf"
    THEN read_pdf(call.file_obj.content).msg
    ELSE read_image(call.file_obj.content, call.env).msg

\* C14: no call of extract_from_file raises; when the PDF reader or the OCR
\* raises, the call returns empty fields and a non-empty message that holds
\* the text of the exception.
C14_CollaboratorFailureIsReturned ==
    extraction.op = "extract_from_file" =>
        /\ ~extraction.result.raised
        /\ CollaboratorRaises(extraction) =>
              /\ extraction.result.data = <<>>
              /\ extraction.result.text # ""
              /\ Contains(extraction.result.text, CollaboratorMessage(extraction))

\* an image whose OCR fails because the tesseract program is missing: the
\* image was opened, the OCR called, and the failure comes back as text
C14_Witness ==
    /\ extraction.op = "extract_from_file"
    /\ extraction.file_obj.name = "photo.JPG"
    /\ extraction.file_obj.content.kind = "image"
    /\ CollaboratorRaises(extraction)
    /\ extraction.result.calls = <<"Image.open", "pytesseract.image_to_string">>
    /\ extraction.result =
          Outcome(FALSE, <<>>,
                  "Error extracting data: Image extraction failed: "
                      \o "/usr/bin/tesseract is not installed or it's not in your PATH.",
                  extraction.result.calls)

----------------------------------------------------------------------------
(* Claims on the confidence of an extraction *)

\* the required fields of a type that a mapping holds with a non-empty value
FoundRequired(extracted_data, proof_type) ==
    {field \in {confidence_required_fields[proof_type][i] :
                    i \in DOMAIN confidence_required_fields[proof_type]} :
        \E i \in DOMAIN extracted_data :
            extracted_data[i][1] = field /\ extracted_data[i][2] # ""}

\* C16: for a type with a required-field set, overall is 100 times the
\* number of required fields present with a non-empty value over the number
\* of required fields, and lies within [0, 100]; for certificate with only
\* certificate_title and issuer_name present it is (2/3)*100.
C16_OverallConfidence ==
    (extraction.op = "get_extraction_confidence"
        /\ extraction.proof_type \in DOMAIN confidence_required_fields) =>
        LET overall == extraction.result.overall
            found == Cardinality(FoundRequired(extraction.extracted_data,
                                               extraction.proof_type))
            total == Len(confidence_required_fields[extraction.proof_type])
        IN  /\ overall.num * total = 100 * found * overall.den
            /\ overall.den > 0
            /\ AtLeast(overall, 0)
            /\ overall.num <= 100 * overall.den
            /\ (extraction.proof_type = "certificate"
                   /\ FoundRequired(extraction.extracted_data, "certificate")
                          = {"certificate_title", "issuer_name"}
                   /\ Keys(extraction.extracted_data)
                          = {"certificate_title", "issuer_name"})
               => overall = [num |-> 200, den |-> 3]

\* a certificate with a title, an issuer and an empty completion date: the
\* empty value does not count and overall is two thirds of 100
C16_Witness ==
    /\ extraction.op = "get_extraction_confidence"
    /\ extraction.proof_type = "certificate"
    /\ extraction.extracted_data = << <<"certificate_title", "Acme Institute">>,
                                      <<"issuer_name", "Go">>,
                                      <<"completion_date", "">> >>
    /\ extraction.result.overall = [num |-> 200, den |-> 3]
    /\ extraction.result.fields = << <<"certificate_title", "high">>,
                                     <<"issuer_name", "low">> >>

\* the fields an extraction returned: of _post_process_data and
\* _extract_structured_data the mapping returned, of extract_from_file the
\* fields of the pair returned; no fields for the other calls
ExtractionResult ==
    IF extraction.op \in {"_post_process_data", "_extract_structured_data"}
    THEN extraction.result
    ELSE IF extraction.op = "extract_from_file" /\ ~extraction.result.raised
    THEN extraction.result.data
    ELSE <<>>

CredentialTypes == {"Course", "Bootcamp", "Workshop", "Award"}

EmploymentTypes == {"full-time", "part-time", "intern", "contributor", "contract"}

\* the label of a field given to _post_process_data is, whatever its case,
\* none of spellings
LabelOutside(field, spellings) ==
    /\ extraction.op = "_post_process_data"
    /\ field \in Keys(extraction.data)
    /\ lower(Item(extraction.data, field)) \notin spellings

\* C21: a credential_type in an extraction result is one of Course,
\* Bootcamp, Workshop, Award, the labels Certificate and Certification
\* giving Course, and an employment_type is one of full-time, part-time,
\* intern, contributor, contract; a label outside the allowed ones is left
\* out of the result, never replaced by a default.
C21_ClosedVocabulary ==
    /\ "credential_type" \in Keys(ExtractionResult)
        => Item(ExtractionResult, "credential_type") \in CredentialTypes
    /\ "employment_type" \in Keys(ExtractionResult)
        => Item(ExtractionResult, "employment_type") \in EmploymentTypes
    /\ LabelOutside("credential_type",
                    {"course", "bootcamp", "workshop", "award",
                     "certificate", "certification"})
        => "credential_type" \notin Keys(extraction.result)
    /\ LabelOutside("employment_type",
                    {"full-time", "part-time", "intern", "contributor", "contract",
                     "full time", "part time"})
        => "employment_type" \notin Keys(extraction.result)
    /\ (/\ extraction.op = "_post_process_data"
        /\ extraction.proof_type = "certificate"
        /\ "credential_type" \in Keys(extraction.data)
        /\ lower(Item(extraction.data, "credential_type"))
               \in {"certificate", "certification"})
        => Item(extraction.result, "credential_type") = "Course"

\* the label Diploma beside a title and a date: the two fields are kept
\* under their model names, the label is left out
C21_Witness ==
    /\ extraction.op = "_post_process_data"
    /\ extraction.proof_type = "certificate"
    /\ extraction.data = << <<"title", "Advanced Python">>,
                            <<"date", "2023-10">>,
                            <<"credential_type", "Diploma">> >>
    /\ extraction.result = << <<"certificate_title", "Advanced Python">>,
                              <<"completion_date", "2023-10">> >>

\* the types get_extraction_confidence declares required fields for
TypesWithRequiredFields == {"certificate", "job_history"}

\* C22: get_extraction_confidence for a type with no declared required
\* fields (skill, milestone, community, a type the models do not know)
\* returns overall 0 and no field labels, whatever fields it is given, and
\* returns rather than raises.
C22_NoRequiredFieldsNoConfidence ==
    (extraction.op = "get_extraction_confidence"
        /\ extraction.proof_type \notin TypesWithRequiredFields)
    => /\ extraction.result.overall = [num |-> 0, den |-> 1]
       /\ extraction.result.fields = <<>>

\* a job title and an employer, both long, given for a milestone
C22_Witness ==
    /\ extraction.op = "get_extraction_confidence"
    /\ extraction.proof_type = "milestone"
    /\ extraction.extracted_data = << <<"job_title", "Acme Institute">>,
                                      <<"employer_name", "Acme Institute">> >>
    /\ extraction.result = [overall |-> [num |-> 0, den |-> 1], fields |-> <<>>]

\* the fields of the mapping given to get_extraction_confidence that hold
\* a value
FieldsWithValue ==
    {extraction.extracted_data[i][1] :
        i \in {j \in DOMAIN extraction.extracted_data :
                   extraction.extracted_data[j][2] # ""}}

\* the label of the claim for a field: by the length of its value
LabelByLength(field) ==
    IF Len(Item(extraction.extracted_data, field)) > 3 THEN "high" ELSE "low"

\* C23, as stated: for a type with required fields every field given to
\* get_extraction_confidence gets a label, 'high' when its value has more
\* than 3 characters, otherwise 'low'.
C23_EveryFieldLabelled ==
    (extraction.op = "get_extraction_confidence"
        /\ extraction.proof_type \in TypesWithRequiredFields)
    => /\ Keys(extraction.result.fields) = Keys(extraction.extracted_data)
       /\ \A field \in Keys(extraction.extracted_data) :
              Item(extraction.result.fields, field) = LabelByLength(field)

\* C23, amended: for a type with required fields every field with a
\* non-empty value gets a label, required or not, 'high' when the value has
\* more than 3 characters, otherwise 'low'; a field with an empty value
\* gets no label.
C23_EveryValueLabelled ==
    (extraction.op = "get_extraction_confidence"
        /\ extraction.proof_type \in TypesWithRequiredFields)
    => /\ Keys(extraction.result.fields) = FieldsWithValue
       /\ \A field \in FieldsWithValue :
              Item(extraction.result.fields, field) = LabelByLength(field)

\* a long title, a short issuer, an empty date and a credential type, which
\* is not required: three labels
C23_Witness ==
    /\ extraction.op = "get_extraction_confidence"
    /\ extraction.proof_type = "certificate"
    /\ extraction.extracted_data = << <<"certificate_title", "Acme Institute">>,
                                      <<"issuer_name", "Go">>,
                                      <<"completion_date", "">>,
                                      <<"credential_type", "Course">> >>
    /\ extraction.result.fields = << <<"certificate_title", "high">>,
                                     <<"issuer_name", "low">>,
                                     <<"credential_type", "high">> >>

\* the fields with a default, by type, as the claim lists them
DefaultedFields(proof_type) ==
    IF proof_type = "certificate" THEN {"certificate_title", "program_category"}
    ELSE IF proof_type = "job_history" THEN {"job_category"}
    ELSE {}

\* C25: suggest_missing_fields returns a default exactly for the fields of
\* the type's fixed set (certificate: certificate_title, program_category;
\* job_history: job_category) that are absent from the fields it is given;
\* it returns no key present in its input, nothing for another type, and
\* leaves its input as it was.
C25_SuggestsExactlyMissing ==
    extraction.op = "suggest_missing_fields"
    => /\ Keys(extraction.result)
              = DefaultedFields(extraction.proof_type) \ Keys(extraction.extracted_data)
       /\ \A field \in Keys(extraction.result) :
              Item(extraction.result, field)
                  = Item(suggested_defaults[extraction.proof_type], field)
       /\ extraction.after = extraction.extracted_data

\* a certificate with a title that is present and empty and no program
\* category: only the category is suggested
C25_Witness ==
    /\ extraction.op = "suggest_missing_fields"
    /\ extraction.proof_type = "certificate"
    /\ extraction.extracted_data = << <<"issuer_name", "Acme Institute">>,
                                      <<"certificate_title", "">> >>
    /\ extraction.result = << <<"program_category", "Professional Development">> >>

\* the numbers of n digits that stand in the text as words of their own
NumberTokens(s, n) ==
    {At(s, p, n) : p \in {q \in 1..Len(s) : /\ At(s, q, n) # ""
                                            /\ IsDigits(At(s, q, n))
                                            /\ Boundary(s, q)
                                            /\ Boundary(s, q + n)}}

\* the 4-digit years of the text from the year 2000 on, and those of them
\* before 2100
YearsFrom2000(s) == {y \in NumberTokens(s, 4) : Char(y, 1) \in Digits \ {"0", "1"}}

YearsOf2000s(s) == {y \in NumberTokens(s, 4) : SubSeq(y, 1, 2) = "20"}

\* the month tokens of the text, 1 to 12, of one digit or two
MonthTokens(s) ==
    {m \in NumberTokens(s, 1) \cup NumberTokens(s, 2) :
        zfill(m, 2) \in {zfill(str(i), 2) : i \in 1..12}}

\* the months the text names, in full or by three letters, in any case
MonthsNamed(s) ==
    {i \in 1..12 : \/ Contains(lower(s), f_month[i])
                   \/ Contains(lower(s), a_month[i])}

\* the result of the fallbacks on the trimmed text s with the years of
\* years: a year and a month token give year-month; a year and a month
\* name, with no month token, give the year and the month's number;
\* anything else gives s back
FallbackResult(s, years, result) ==
    IF years # {} /\ MonthTokens(s) # {}
    THEN \E y \in years, m \in MonthTokens(s) : result = y \o "-" \o zfill(m, 2)
    ELSE IF years # {} /\ MonthsNamed(s) # {}
    THEN \E y \in years, i \in MonthsNamed(s) :
             result = y \o "-" \o zfill(str(i), 2)
    ELSE result = s

\* a call of _normalize_date on a text none of the formats parses
NoFormatParses ==
    /\ extraction.op = "_normalize_date"
    /\ Parsing(strip(extraction.date_str)) = {}

\* C24, as stated: when no format parses, a text with a 4-digit year of 2000
\* or later and a month token of 1 or 2 digits (1 to 12) gives YYYY-MM with
\* the month padded to two digits, a text with such a year and a month name
\* only gives the year with the month's number ("sometime in March, 2022"
\* gives "2022-03"), and any other text comes back trimmed and unchanged.
C24_FallbackFrom2000 ==
    NoFormatParses
    => /\ FallbackResult(strip(extraction.date_str),
                         YearsFrom2000(strip(extraction.date_str)),
                         extraction.result)
       /\ extraction.date_str = "sometime in March, 2022"
              => extraction.result = "2022-03"

\* C24, amended: the same with the year a 4-digit number from 2000 to 2099;
\* a text whose only year is 2100 or later comes back unchanged.
C24_FallbackFrom2000To2099 ==
    NoFormatParses
    => /\ FallbackResult(strip(extraction.date_str),
                         YearsOf2000s(strip(extraction.date_str)),
                         extraction.result)
       /\ extraction.date_str = "sometime in March, 2022"
              => extraction.result = "2022-03"

\* a day before the month name: the day is taken for the month token, the
\* month name is not consulted
C24_Witness ==
    /\ NoFormatParses
    /\ extraction.date_str = "4 July 2026"
    /\ MonthTokens("4 July 2026") = {"4"}
    /\ MonthsNamed("4 July 2026") = {7}
    /\ extraction.result = "2026-04"

----------------------------------------------------------------------------
(* DocumentViewSet.extract_and_create: extraction of an uploaded file,     *)
(* then the pipeline when the extraction is confident enough.  A request   *)
(* is [FILES, data]: the uploaded files by field name and the form fields, *)
(* both mappings.                                                          *)

\* uploads in one run
MaxUploads == 1

\* the str of a text, and the text of a str (without characters JSON escapes)
PyStrs(d) == [i \in DOMAIN d |-> <<d[i][1], S(d[i][2])>>]

Text(v) == Concat(v.s)

\* as update, a key of d keeping the value it has
RECURSIVE update_KeepsFirst(_, _)
update_KeepsFirst(d, other) ==
    IF other = <<>> THEN d
    ELSE update_KeepsFirst(IF Head(other)[1] \in Keys(d) THEN d
                           ELSE SetItem(d, Head(other)[1], Head(other)[2]),
                           Tail(other))

\* {**d, **other}, d.update(other)
RECURSIVE update(_, _)
update(d, other) ==
    IF other = <<>> THEN d
    ELSE update(SetItem(d, Head(other)[1], Head(other)[2]), Tail(other))

\* the fields of the form that are neither file, proof_type nor user_id
user_data(request) ==
    SelectSeq(request.data,
              LAMBDA item : item[1] \notin {"file", "proof_type", "user_id"})

\* the Response: code and status, what the extraction gave, whether
\* process_document was called, and the storage afterwards
Answer(code, status, called, x, document, errors, db) ==
    [code |-> code, status |-> status, called |-> called,
     extracted_data |-> x.extracted_data, merged_data |-> x.merged_data,
     suggestions |-> x.suggestions, confidence |-> x.confidence,
     document |-> document, errors |-> errors, db |-> db]

NothingExtracted ==
    [extracted_data |-> <<>>, merged_data |-> <<>>, suggestions |-> <<>>,
     confidence |-> [overall |-> Fraction(0, 1), fields |-> <<>>]]

\* as low_confidence, with the threshold at 30
low_confidence_BelowThirty(confidence) == LessThan(confidence.overall, 30)

\* if confidence['overall'] < 50
low_confidence(confidence) == LessThan(confidence.overall, 50)

\* the Response after process_document returned r
after_process_document(x, r) ==
    IF r.document # None
    THEN Answer(201, "success", TRUE, x, r.document, r.errors, r.db)
    ELSE Answer(400, "error", TRUE, x, None, r.errors, r.db)

\* from the confidence check on: x holds what the extraction gave
create_if_confident(db, request, x, env) ==
    IF low_confidence(x.confidence)
    THEN Answer(200, "partial", FALSE, x, None, <<>>, db)
    ELSE after_process_document(
             x, process_document(db, Text(Get(request.data, "proof_type")),
                                 x.merged_data,
                                 Text(Get(request.data, "user_id")),
                                 <<Item(request.FILES, "file")>>, env))

\* the texts of a mapping of strs
Texts(d) == [i \in DOMAIN d |-> <<d[i][1], Text(d[i][2])>>]

\* as with_suggestions, the confidence computed from the merged data
with_suggestions_ConfidenceOfMerged(extracted_data, merged_data, suggestions, proof_type) ==
    [extracted_data |-> extracted_data,
     merged_data |-> update(merged_data, PyStrs(suggestions)),
     suggestions |-> suggestions,
     confidence |-> get_extraction_confidence(Texts(merged_data), proof_type)]

\* merged_data = {**extracted_data, **user_data}, then the suggestions for
\* it and merged_data.update(suggestions)
with_suggestions(extracted_data, merged_data, suggestions, proof_type) ==
    [extracted_data |-> extracted_data,
     merged_data |-> update(merged_data, PyStrs(suggestions)),
     suggestions |-> suggestions,
     confidence |-> get_extraction_confidence(extracted_data, proof_type)]

merged(extracted_data, merged_data, proof_type) ==
    with_suggestions(extracted_data, merged_data,
                     suggest_missing_fields(merged_data, proof_type), proof_type)

\* extracted is what extractor.extract_from_file(file_obj, proof_type)
\* returned to the view
extract_and_create(db, request, extracted, env) ==
    IF "file" \notin Keys(request.FILES)
    THEN Answer(400, "error", FALSE, NothingExtracted, None,
                <<"No file provided">>, db)
    ELSE IF ~Truthy(Get(request.data, "proof_type"))
    THEN Answer(400, "error", FALSE, NothingExtracted, None,
                <<"proof_type is required">>, db)
    ELSE create_if_confident(
             db, request,
             merged(extracted.data,
                    update(PyStrs(extracted.data), user_data(request)),
                    Text(Get(request.data, "proof_type"))),
             env)

\* extractors.extract_and_create_document: the fields extracted, the user's
\* fields over them, the suggestions for the merged fields, which stay
\* beside them, the confidence of the extracted fields and the first 500
\* characters of the raw text; extracted is what extract_from_file returned
extract_and_create_document(proof_type, user_provided_data, extracted) ==
    [extracted_data |-> extracted.data,
     merged_data |-> IF user_provided_data # <<>>
                     THEN update(PyStrs(extracted.data), user_provided_data)
                     ELSE PyStrs(extracted.data),
     suggestions |->
         suggest_missing_fields(
             IF user_provided_data # <<>>
             THEN update(PyStrs(extracted.data), user_provided_data)
             ELSE PyStrs(extracted.data), proof_type),
     confidence |-> get_extraction_confidence(extracted.data, proof_type),
     raw_text |-> IF extracted.text = "" THEN None
                  ELSE IF Len(extracted.text) > 500
                  THEN S(SubSeq(extracted.text, 1, 500))
                  ELSE S(extracted.text)]

\* uploaded files
Upload(name, content, content_type) ==
    [name |-> name, content |-> content, content_type |-> content_type]

Uploads ==
    {Upload("certificate.pdf", PdfContent(<<Page(RecognizedTexts[2])>>),
            S("application/pdf")),
     Upload("diploma.pdf",
            PdfContent(<<Page("Certificate of Data Science"),
                         Page("Issued by: Acme Institute")>>),
            S("application/pdf")),
     Upload("photo.JPG", ImageContent("RGB", RecognizedTexts[6] \o "\n\f"),
            S("image/jpeg")),
     Upload("letter.pdf", PdfContent(<<Page(RecognizedTexts[7])>>),
            S("application/pdf")),
     Upload("title.pdf", PdfContent(<<Page(RecognizedTexts[5])>>), None),
     Upload("setup.exe", PdfContent(<<Page(RecognizedTexts[2])>>), None),
     Upload("broken.pdf", OtherContent, S("application/pdf"))}

\* the calls of extract_from_file the view makes for the uploads
UploadCalls ==
    {file_call(file_obj, proof_type, env) :
        file_obj \in Uploads, proof_type \in {"certificate", "job_history", "skill"},
        env \in {[imported |-> TRUE, tesseract |-> TRUE],
                 [imported |-> FALSE, tesseract |-> FALSE]}}
    \cup
    {file_call(file_obj, proof_type, [imported |-> TRUE, tesseract |-> TRUE]) :
        file_obj \in {u \in Uploads : u.name \in {"certificate.pdf", "letter.pdf"}},
        proof_type \in {"milestone", "community"}}

\* the fields the user gives beside the file
Overrides ==
    {<<>>,
     << <<"completion_date", S("2024-01")>>, <<"issuer_name", S("Acme")>> >>,
     BaseData("certificate")}

\* the form: an empty proof_type is the str without characters
Form(proof_type, overrides) ==
    << <<"proof_type", IF proof_type = "" THEN Str(<<>>) ELSE S(proof_type)>>,
       <<"user_id", S("user-1")>> >> \o overrides

Request(file_obj, data) ==
    [FILES |-> << <<"file", file_obj>> >>, data |-> data]

\* the requests for one call of extract_from_file: with each set of
\* overrides and with every field of a record of the type, and for the
\* first of them also without the file and without proof_type
RequestsFor(call) ==
    {Request(call.file_obj, Form(call.proof_type, overrides)) :
        overrides \in Overrides \cup {BaseData(call.proof_type)}}
    \cup (IF call.file_obj.name = "certificate.pdf" /\ call.proof_type = "certificate"
          THEN {[FILES |-> <<>>, data |-> Form("certificate", <<>>)],
                Request(call.file_obj, << <<"user_id", S("user-1")>> >>),
                Request(call.file_obj, Form("", <<>>))}
          ELSE {})

\* the surroundings of the pipeline, as [tick, fault, bad]: no fault at
\* the same or the next instant, a storage fault on the Document or on the
\* sub-record, a failing upload of the evidence file
UploadEnvChoices ==
    {[tick |-> 0, fault |-> "none", bad |-> {}],
     [tick |-> 1, fault |-> "none", bad |-> {}],
     [tick |-> 1, fault |-> "document", bad |-> {}],
     [tick |-> 1, fault |-> "subrecord", bad |-> {}],
     [tick |-> 1, fault |-> "none", bad |-> {1}]}

\* extract_and_create(request) has answered r
ReturnFromUpload(request, call, env, r) ==
    /\ SetDb(r.db)
    /\ now' = IF r.called THEN env.now ELSE now
    /\ submitted' = submitted + 1
    /\ last' = [op         |-> "extract_and_create",
                request    |-> request,
                extraction |-> call,
                env        |-> env,
                before     |-> Tables(Db),
                response   |-> [r EXCEPT !.db = Tables(r.db)]]

\* the uploads: a request, the call of extract_from_file the view makes for
\* it and the surroundings of the pipeline
UploadAttempts ==
    UNION {{[request |-> request, call |-> call, c |-> c] :
               request \in RequestsFor(call), c \in UploadEnvChoices} :
           call \in UploadCalls}

ExtractAndCreate ==
    /\ submitted < MaxUploads
    /\ \E u \in UploadAttempts :
         ReturnFromUpload(u.request, u.call, MakeEnv(u.c, now),
                          extract_and_create(Db, u.request, u.call.result,
                                             MakeEnv(u.c, now)))
    /\ UNCHANGED hash_vars
    /\ UNCHANGED <<extract_vars, conc_vars>>

\* the calls of extract_and_create_document: a call of extract_from_file
\* and the fields the user provides
DocumentAttempts ==
    {[call |-> call, user_provided_data |-> overrides,
      result |-> extract_and_create_document(call.proof_type, overrides,
                                             call.result)] :
        call \in UploadCalls, overrides \in Overrides}

\* extract_and_create_document stores nothing
ExtractAndCreateDocument ==
    /\ submitted < MaxUploads
    /\ \E u \in DocumentAttempts :
         last' = [op |-> "extract_and_create_document",
                  extraction |-> u.call,
                  user_provided_data |-> u.user_provided_data,
                  result |-> u.result]
    /\ submitted' = submitted + 1
    /\ UNCHANGED <<documents, subrecords, evidence_files, next_id, now>>
    /\ UNCHANGED hash_vars
    /\ UNCHANGED <<extract_vars, conc_vars>>

UploadNext == ExtractAndCreate \/ ExtractAndCreateDocument

UploadSpec == Init /\ [][UploadNext]_vars

----------------------------------------------------------------------------
(* Claims on extract_and_create *)

\* the request carries a file and a document type: the view extracts
ReachesExtraction(request) ==
    /\ "file" \in Keys(request.FILES)
    /\ Truthy(Get(request.data, "proof_type"))

\* the overall confidence of what a call of extract_from_file returned is
\* below 50: fewer than half of the required fields of the type were found,
\* or the type has no required fields and the confidence is 0
BelowFifty(call) ==
    \/ call.proof_type \notin DOMAIN confidence_required_fields
    \/ 100 * Cardinality(FoundRequired(call.result.data, call.proof_type))
           < 50 * Len(confidence_required_fields[call.proof_type])

\* C15: whenever the overall confidence of the extraction is below 50,
\* extract_and_create answers 'partial', does not call the pipeline and
\* writes nothing to the storage; the pipeline is called only when the
\* overall confidence is at least 50.
C15_LowConfidenceCreatesNothing ==
    last.op = "extract_and_create" =>
        /\ (ReachesExtraction(last.request) /\ BelowFifty(last.extraction)) =>
              /\ last.response.status = "partial"
              /\ ~last.response.called
              /\ last.response.document = None
              /\ last.response.db = last.before
              /\ Tables(Db) = last.before
        /\ last.response.called =>
              /\ ReachesExtraction(last.request)
              /\ ~BelowFifty(last.extraction)
              /\ AtLeast(last.response.confidence.overall, 50)

\* one required field of three was extracted and the user supplied every
\* field of a certificate: the answer is still 'partial' and nothing is
\* stored
C15_Witness ==
    /\ last.op = "extract_and_create"
    /\ ReachesExtraction(last.request)
    /\ Item(last.request.FILES, "file").name = "title.pdf"
    /\ user_data(last.request) = BaseData("certificate")
    /\ last.extraction.result.data = << <<"certificate_title", "Data Science">>,
                                        <<"credential_type", "Course">> >>
    /\ last.response.confidence.overall = [num |-> 100, den |-> 3]
    /\ last.response.status = "partial"
    /\ last.response.code = 200
    /\ documents = {}
    /\ subrecords = {}
    /\ evidence_files = {}

\* a merge has happened: the view got past its two checks, or the helper
\* extract_and_create_document returned
Merged ==
    \/ last.op = "extract_and_create" /\ ReachesExtraction(last.request)
    \/ last.op = "extract_and_create_document"

\* the fields the merge started from, the user's fields, the merged fields
\* that came out and the suggestions beside them
MergeExtracted == PyStrs(last.extraction.result.data)

MergeUser ==
    IF last.op = "extract_and_create" THEN user_data(last.request)
    ELSE last.user_provided_data

MergeResult ==
    IF last.op = "extract_and_create" THEN last.response.merged_data
    ELSE last.result.merged_data

MergeSuggestions ==
    IF last.op = "extract_and_create" THEN last.response.suggestions
    ELSE last.result.suggestions

\* C26: in the merged data every key the user supplied has the user's
\* value and every other extracted key its extracted value; a default is
\* suggested only for a key that neither the extraction nor the user gave,
\* so whatever else the merged data holds is such a default and no
\* suggestion takes the place of an extracted or user-supplied value.
C26_MergePrecedence ==
    Merged =>
        /\ \A k \in Keys(MergeUser) : Item(MergeResult, k) = Item(MergeUser, k)
        /\ \A k \in Keys(MergeExtracted) \ Keys(MergeUser) :
               Item(MergeResult, k) = Item(MergeExtracted, k)
        /\ Keys(MergeSuggestions) \cap (Keys(MergeExtracted) \cup Keys(MergeUser)) = {}
        /\ \A k \in Keys(MergeResult) \ (Keys(MergeExtracted) \cup Keys(MergeUser)) :
               /\ k \in Keys(MergeSuggestions)
               /\ Item(MergeResult, k) = S(Item(MergeSuggestions, k))

\* the user overrides the issuer the extraction found and adds a date; the
\* title stays as extracted and only the program category is suggested
C26_Witness ==
    /\ last.op = "extract_and_create"
    /\ ReachesExtraction(last.request)
    /\ Item(last.request.FILES, "file").name = "diploma.pdf"
    /\ last.extraction.proof_type = "certificate"
    /\ last.extraction.env.imported
    /\ Keys(MergeUser) = {"completion_date", "issuer_name"}
    /\ Item(MergeExtracted, "issuer_name") = S("Acme Institute")
    /\ Item(MergeUser, "issuer_name") = S("Acme")
    /\ Item(MergeResult, "issuer_name") = S("Acme")
    /\ Item(MergeResult, "certificate_title") = Item(MergeExtracted, "certificate_title")
    /\ Item(MergeResult, "completion_date") = S("2024-01")
    /\ MergeSuggestions = << <<"program_category", "Professional Development">> >>
    /\ Item(MergeResult, "program_category") = S("Professional Development")

\* the required fields of a type that the fields given hold with a value
Confident(fields, proof_type) ==
    IF proof_type \in TypesWithRequiredFields
    THEN Cardinality(FoundRequired(fields, proof_type))
    ELSE 0

\* C28: the confidence extract_and_create answers with, and decides by, is
\* that of the extracted fields alone, whatever the user supplied; for
\* skill, milestone and community it is 0, the answer is 'partial' and no
\* record is created, whatever the file and the user's fields.
C28_ConfidenceOfExtractedOnly ==
    (last.op = "extract_and_create" /\ ReachesExtraction(last.request)) =>
        LET proof_type == last.extraction.proof_type
            overall == last.response.confidence.overall
        IN  /\ overall.num * 3
                   = 100 * Confident(last.extraction.result.data, proof_type)
                         * overall.den
            /\ last.response.called = AtLeast(overall, 50)
            /\ proof_type \in {"skill", "milestone", "community"} =>
                   /\ overall = [num |-> 0, den |-> 1]
                   /\ last.response.code = 200
                   /\ last.response.status = "partial"
                   /\ ~last.response.called
                   /\ last.response.document = None
                   /\ Tables(Db) = last.before

\* a milestone: the file is a readable certificate and the user supplies
\* every field of a milestone; the answer is 'partial', nothing is stored
C28_Witness ==
    /\ last.op = "extract_and_create"
    /\ ReachesExtraction(last.request)
    /\ last.extraction.proof_type = "milestone"
    /\ Item(last.request.FILES, "file").name = "certificate.pdf"
    /\ user_data(last.request) = BaseData("milestone")
    /\ Keys(last.response.merged_data) = Keys(BaseData("milestone"))
    /\ last.response.confidence.overall = [num |-> 0, den |-> 1]
    /\ last.response.status = "partial"
    /\ documents = {}

====
